---- MODULE Spec2Model ----
(***************************************************************************)
(* ActionGuard (packages/core): the pipeline builder and executor of       *)
(* builder.ts, the sliding-window limiter of rate-limit.ts (carried in     *)
(* types.ts lines 80-233), the CSRF validator of csrf.ts and the input     *)
(* sanitizer of sanitize.ts.                                               *)
(*                                                                         *)
(* Strings the code parses (window strings, header values, inputs) are     *)
(* sequences of one-character strings; strings the code only compares or   *)
(* concatenates (keys, messages, names) are TLA+ strings.                  *)
(***************************************************************************)
EXTENDS Integers, Sequences, FiniteSets, TLC

VARIABLES
    config,            \* ActionGuardConfig given to createActionGuard
    builders,          \* step arrays held by the builders created so far
    actions,           \* compiled actions: the builder whose steps each closed over
    rateLimiterCache,  \* Map<RateLimitConfig, RateLimiterFn> of the guard
    stores,            \* MemoryRateLimitStore instances: each a Map key -> timestamps
    clock,             \* Date.now()
    inv,               \* invocations of compiled actions (position, result)
    ctxs,              \* MiddlewareContext objects, by reference
    job,               \* the invocation whose code is running (0: none is)
    console,           \* lines written by console.log (audit records)
    checked,           \* history: the checks the stores answered, in order
    direct             \* the last direct call of a function of the modules, and its value

vars == <<config, builders, actions, rateLimiterCache, stores, clock, inv, ctxs,
          job, console, checked, direct>>

-----------------------------------------------------------------------------
(* Bounds of the model *)

MaxSteps == 2      \* longest declared pipeline
MaxInv == 2        \* invocations of the compiled action
MaxConcSteps == 1  \* longest pipeline of the concurrent specification
MaxTicks == 1      \* clock advances
TickMs == 1000     \* milliseconds per clock advance
MaxBuilders == 3   \* builders created in the builder specification
MaxActions == 1    \* actions compiled in the builder specification
MaxN == 2          \* largest maxRequests in the limiter specification
MaxW == 2          \* longest window, in seconds, in the limiter specification
MaxChecks == 4     \* checks made in the limiter specification
MaxHalves == 5     \* clock advances in the limiter specification
HalfMs == 500      \* milliseconds per clock advance in the limiter specification
MaxStoreChecks == 3 \* checks made in the store specification
MaxStoreHalves == 2 \* clock advances in the store specification
MaxWindowLen == 4         \* the longest window string given to parseWindow

-----------------------------------------------------------------------------
(* Values *)

NULL == "null"                \* JavaScript null

\* unknown input values: a string, undefined, or an object { name: <string> }
Str(cs) == [t |-> "string", s |-> cs]
Obj(cs) == [t |-> "object", s |-> cs]
Undef == [t |-> "undefined", s |-> <<>>]

RECURSIVE Join(_)
Join(cs) == IF cs = <<>> THEN "" ELSE cs[1] \o Join(Tail(cs))

Max(a, b) == IF a >= b THEN a ELSE b

\* Map.get / Map.set / Map.delete on a function whose DOMAIN is the key set
MapHas(m, k) == k \in DOMAIN m
MapSet(m, k, v) == [x \in (DOMAIN m) \cup {k} |-> IF x = k THEN v ELSE m[x]]
MapDelete(m, k) == [x \in (DOMAIN m) \ {k} |-> m[x]]
EmptyMap == <<>>

\* thrown values: an Error with a message, or a non-Error value
ErrorOf(msg) == [isError |-> TRUE, message |-> msg]
NonError == [isError |-> FALSE, message |-> "string error"]

\* no function has been called directly
NoCall == [fn |-> "none"]

-----------------------------------------------------------------------------
(* rate-limit.ts: parseWindow *)

Second == 1000
Minute == 60000
Hour == 3600000
Day == 86400000

Digits == {"0", "1", "2", "3", "4", "5", "6", "7", "8", "9"}
DigitVal(c) ==
    CASE c = "0" -> 0 [] c = "1" -> 1 [] c = "2" -> 2 [] c = "3" -> 3 [] c = "4" -> 4
      [] c = "5" -> 5 [] c = "6" -> 6 [] c = "7" -> 7 [] c = "8" -> 8 [] c = "9" -> 9
IsSpace(c) == c \in {" ", "\t", "\n"}

\* String.prototype.toLowerCase on one unit letter
\* (KeepCase: a match and a unit lookup that tell upper from lower case)
KeepCase(c) == c
ToLower(c) ==
    CASE c = "S" -> "s" [] c = "M" -> "m" [] c = "H" -> "h" [] c = "D" -> "d"
      [] OTHER -> c

UNIT_MS(u) ==
    CASE u = "s" -> Second [] u = "m" -> Minute [] u = "h" -> Hour [] u = "d" -> Day

RECURSIVE TrimStart(_)
TrimStart(cs) ==
    IF cs # <<>> /\ IsSpace(cs[1]) THEN TrimStart(Tail(cs)) ELSE cs

RECURSIVE TrimEnd(_)
TrimEnd(cs) ==
    IF cs # <<>> /\ IsSpace(cs[Len(cs)]) THEN TrimEnd(SubSeq(cs, 1, Len(cs) - 1)) ELSE cs

Trim(cs) == TrimEnd(TrimStart(cs))

\* Number.parseInt(digits, 10)
RECURSIVE ParseInt(_)
ParseInt(ds) ==
    IF ds = <<>> THEN 0
    ELSE ParseInt(SubSeq(ds, 1, Len(ds) - 1)) * 10 + DigitVal(ds[Len(ds)])

\* /^(\d+)\s*([smhd])$/i : the number of leading digits, then only blanks, then a unit
RECURSIVE LeadingDigits(_)
LeadingDigits(cs) ==
    IF cs # <<>> /\ cs[1] \in Digits THEN 1 + LeadingDigits(Tail(cs)) ELSE 0

WindowMatch(trimmed) ==
    LET nd == LeadingDigits(trimmed)
        n == Len(trimmed)
    IN  IF /\ nd >= 1
           /\ n >= nd + 1
           /\ ToLower(trimmed[n]) \in {"s", "m", "h", "d"}
           /\ \A i \in (nd + 1)..(n - 1) : IsSpace(trimmed[i])
        THEN [matched |-> TRUE, digits |-> SubSeq(trimmed, 1, nd), unit |-> trimmed[n]]
        ELSE [matched |-> FALSE, digits |-> <<>>, unit |-> ""]

InvalidWindowMessage(window) ==
    "Invalid window format \"" \o Join(window)
        \o "\". Expected a number followed by s, m, h, or d (e.g. \"30s\", \"5m\", \"1h\", \"1d\")."

NotPositiveMessage == "Window value must be a positive integer, got 0."

\* returns [threw, ms, error]: the milliseconds, or the Error thrown
parseWindow(window) ==
    CHOOSE parsed \in {
        IF ~match.matched
        THEN [threw |-> TRUE, ms |-> 0, error |-> ErrorOf(InvalidWindowMessage(window))]
        ELSE LET value == ParseInt(match.digits)
                 multiplier == UNIT_MS(ToLower(match.unit))
             IN  IF value <= 0
                 THEN [threw |-> TRUE, ms |-> 0, error |-> ErrorOf(NotPositiveMessage)]
                 ELSE [threw |-> FALSE, ms |-> value * multiplier, error |-> ErrorOf("")]
        : match \in {WindowMatch(Trim(window))}} : TRUE

-----------------------------------------------------------------------------
(* rate-limit.ts: MemoryRateLimitStore *)

\* timestamps.length < maxRequests (AllowedOffByOne: <= in its place)
AllowedOffByOne(count, maxRequests) == count <= maxRequests
Allowed(count, maxRequests) == count < maxRequests

\* timestamps.filter((ts) => ts > windowStart) (PruneInclusive: >= in its place;
\* PruneNever: no filter)
PruneNever(timestamps, windowStart) == timestamps
PruneInclusive(timestamps, windowStart) ==
    SelectSeq(timestamps, LAMBDA ts : ts >= windowStart)
Prune(timestamps, windowStart) == SelectSeq(timestamps, LAMBDA ts : ts > windowStart)

\* if (allowed) timestamps.push(now) (AdmitAlways: the push made unconditional;
\* AdmitNothing: the push left out)
AdmitNothing(timestamps, allowed, now) == timestamps
AdmitAlways(timestamps, allowed, now) == Append(timestamps, now)
Admit(timestamps, allowed, now) == IF allowed THEN Append(timestamps, now) ELSE timestamps

\* Math.max(0, maxRequests - timestamps.length), count being timestamps.length
\* after the push (RemainingBeforePush: the length before it)
RemainingBeforePush(maxRequests, count) == Max(0, maxRequests - (count - 1))
Remaining(maxRequests, count) == Max(0, maxRequests - count)

\* timestamps.length > 0 ? timestamps[0] + windowMs : now + windowMs
\* (ResetAtFromNow: now + windowMs whatever is retained)
ResetAtFromNow(timestamps, windowMs, now) == now + windowMs
ResetAt(timestamps, windowMs, now) ==
    IF Len(timestamps) > 0 THEN timestamps[1] + windowMs ELSE now + windowMs

\* check(key, maxRequests, windowMs) at Date.now() = now on the Map windows:
\* the Map after the call and the RateLimitResult
\* (StoreCheckUnsaved: a check that never writes the array back into the Map)
StoreCheckUnsaved(windows, key, maxRequests, windowMs, now) ==
    LET windowStart == now - windowMs
        pruned == IF MapHas(windows, key) THEN Prune(windows[key], windowStart) ELSE <<>>
        allowed == Allowed(Len(pruned), maxRequests)
        timestamps == Admit(pruned, allowed, now)
        resetAt == ResetAt(timestamps, windowMs, now)
    IN  [windows |-> windows,
         result |-> [allowed |-> allowed,
                     remaining |-> Remaining(maxRequests, Len(timestamps)),
                     resetAt |-> resetAt]]
StoreCheck(windows, key, maxRequests, windowMs, now) ==
    LET windowStart == now - windowMs
        pruned == IF MapHas(windows, key) THEN Prune(windows[key], windowStart) ELSE <<>>
        allowed == Allowed(Len(pruned), maxRequests)
        timestamps == Admit(pruned, allowed, now)
        resetAt == ResetAt(timestamps, windowMs, now)
    IN  [windows |-> MapSet(windows, key, timestamps),
         result |-> [allowed |-> allowed,
                     remaining |-> Remaining(maxRequests, Len(timestamps)),
                     resetAt |-> resetAt]]

\* reset(key) (StoreResetAll: this.windows.clear() in its place; StoreResetLast:
\* a reset that drops the newest timestamp only)
StoreResetAll(windows, key) == EmptyMap
StoreResetLast(windows, key) ==
    IF MapHas(windows, key) /\ Len(windows[key]) > 1
    THEN MapSet(windows, key, SubSeq(windows[key], 1, Len(windows[key]) - 1))
    ELSE MapDelete(windows, key)
StoreReset(windows, key) == MapDelete(windows, key)

-----------------------------------------------------------------------------
(* Optional fields (x?: T) are sets with at most one element *)

None == {}
Some(v) == {v}
Get(opt) == CHOOSE v \in opt : TRUE
\* a ?? b
Coalesce(a, b) == IF a # None THEN a ELSE b

-----------------------------------------------------------------------------
(* rate-limit.ts: createRateLimiter *)

DefaultMaxRequests == 100
DefaultWindow == <<"1", "m">>

\* const resolveKey = keyFn ?? (() => "global")
\* (resolveKeyByArgument: a default that returns the key it is called with)
resolveKeyByArgument(keyFn, arg) == IF keyFn = None THEN arg ELSE "user:" \o arg
resolveKey(keyFn, arg) == IF keyFn = None THEN "global" ELSE "user:" \o arg

\* createRateLimiter(options) when nStores stores exist: the limiter (its
\* maxRequests, windowMs, keyFn and backing store) or the Error parseWindow threw;
\* fresh tells whether a new MemoryRateLimitStore was constructed
createRateLimiter(options, nStores) ==
    CHOOSE made \in {
        LET fresh == options.store = None
        IN  IF parsed.threw
            THEN [threw |-> TRUE, error |-> parsed.error, fresh |-> FALSE,
                  limiter |-> [maxRequests |-> 0, windowMs |-> 0, keyFn |-> None,
                               store |-> 0]]
            ELSE [threw |-> FALSE, error |-> parsed.error, fresh |-> fresh,
                  limiter |-> [maxRequests |-> options.maxRequests,
                               windowMs |-> parsed.ms,
                               keyFn |-> options.keyFn,
                               store |-> IF fresh THEN nStores + 1
                                         ELSE Get(options.store)]]
        : parsed \in {parseWindow(options.window)}} : TRUE

-----------------------------------------------------------------------------
(* csrf.ts *)

DEFAULTS == [cookieName |-> "actionguard-csrf", headerName |-> "x-actionguard-csrf"]

\* new Headers(): no header is set; Headers.get(name) of an absent header is null
EmptyHeaders == EmptyMap
HeaderPresent(headers, name) == MapHas(headers, name)

\* String.prototype.split on a one-character separator
RECURSIVE Split(_, _)
Split(cs, sep) ==
    IF \A i \in 1..Len(cs) : cs[i] # sep THEN <<cs>>
    ELSE LET k == CHOOSE i \in 1..Len(cs) : cs[i] = sep /\ \A j \in 1..(i - 1) : cs[j] # sep
         IN  <<SubSeq(cs, 1, k - 1)>> \o Split(SubSeq(cs, k + 1, Len(cs)), sep)

\* String.prototype.indexOf, 1-based; 0 when absent
IndexOf(cs, c) ==
    IF \E i \in 1..Len(cs) : cs[i] = c
    THEN CHOOSE i \in 1..Len(cs) : cs[i] = c /\ \A j \in 1..(i - 1) : cs[j] # c
    ELSE 0

\* an optional configuration object's optional name, or the default
CsrfName(csrfConfig, field) ==
    IF csrfConfig = None THEN DEFAULTS[field]
    ELSE IF Get(csrfConfig)[field] = None THEN DEFAULTS[field]
    ELSE Get(Get(csrfConfig)[field])

\* token from the header, None for null
getCsrfTokenFromHeaders(headers, csrfConfig) ==
    LET headerName == CsrfName(csrfConfig, "headerName")
    IN  IF ~HeaderPresent(headers, headerName) THEN None
        ELSE IF Trim(headers[headerName]) = <<>> THEN None
        ELSE Some(Trim(headers[headerName]))

RECURSIVE CookieScan(_, _)
CookieScan(cookies, cookieName) ==
    IF cookies = <<>> THEN None
    ELSE LET cookie == cookies[1]
             equalsIndex == IndexOf(cookie, "=")
         IN  IF equalsIndex = 0 THEN CookieScan(Tail(cookies), cookieName)
             ELSE LET name == Trim(SubSeq(cookie, 1, equalsIndex - 1))
                      value == Trim(SubSeq(cookie, equalsIndex + 1, Len(cookie)))
                  IN  IF Join(name) = cookieName
                      THEN (IF value = <<>> THEN None ELSE Some(value))
                      ELSE CookieScan(Tail(cookies), cookieName)

getCsrfTokenFromCookie(headers, csrfConfig) ==
    LET cookieName == CsrfName(csrfConfig, "cookieName")
    IN  IF ~HeaderPresent(headers, "cookie") THEN None
        ELSE IF Trim(headers["cookie"]) = <<>> THEN None
        ELSE CookieScan(Split(headers["cookie"], ";"), cookieName)

MissingHeaderMessage(headerName) == "Missing CSRF token in header \"" \o headerName \o "\""
MissingCookieMessage(cookieName) == "Missing CSRF token in cookie \"" \o cookieName \o "\""
MismatchMessage == "CSRF token mismatch: header token does not match cookie token"

\* validateCsrf(headers, config): [valid, error], error None when valid
\* (validateCsrfCookieFirst: the cookie looked at before the header)
validateCsrfCookieFirst(headers, csrfConfig) ==
    LET headerToken == getCsrfTokenFromHeaders(headers, csrfConfig)
        cookieToken == getCsrfTokenFromCookie(headers, csrfConfig)
    IN  IF cookieToken = None
        THEN [valid |-> FALSE,
              error |-> Some(MissingCookieMessage(CsrfName(csrfConfig, "cookieName")))]
        ELSE IF headerToken = None
        THEN [valid |-> FALSE,
              error |-> Some(MissingHeaderMessage(CsrfName(csrfConfig, "headerName")))]
        ELSE IF headerToken # cookieToken
        THEN [valid |-> FALSE, error |-> Some(MismatchMessage)]
        ELSE [valid |-> TRUE, error |-> None]
validateCsrf(headers, csrfConfig) ==
    LET headerToken == getCsrfTokenFromHeaders(headers, csrfConfig)
        cookieToken == getCsrfTokenFromCookie(headers, csrfConfig)
    IN  IF headerToken = None
        THEN [valid |-> FALSE,
              error |-> Some(MissingHeaderMessage(CsrfName(csrfConfig, "headerName")))]
        ELSE IF cookieToken = None
        THEN [valid |-> FALSE,
              error |-> Some(MissingCookieMessage(CsrfName(csrfConfig, "cookieName")))]
        ELSE IF headerToken # cookieToken
        THEN [valid |-> FALSE, error |-> Some(MismatchMessage)]
        ELSE [valid |-> TRUE, error |-> None]

-----------------------------------------------------------------------------
(* sanitize.ts *)

\* the grave accent character (U+0060), which a TLA+ string cannot hold
Backtick == "U+0060"

HTML_ENTITY_MAP(c) ==
    CASE c = "&" -> <<"&", "a", "m", "p", ";">>
      [] c = "<" -> <<"&", "l", "t", ";">>
      [] c = ">" -> <<"&", "g", "t", ";">>
      [] c = "\"" -> <<"&", "q", "u", "o", "t", ";">>
      [] c = "'" -> <<"&", "#", "x", "2", "7", ";">>
      [] c = Backtick -> <<"&", "#", "x", "6", "0", ";">>
      [] OTHER -> <<c>>

RECURSIVE escapeHtml(_)
escapeHtml(cs) ==
    IF cs = <<>> THEN <<>> ELSE HTML_ENTITY_MAP(cs[1]) \o escapeHtml(Tail(cs))

\* sanitizeInput(input) with the default configuration, on a string, undefined
\* or an object { name: <string> }, of which it returns an escaped copy
sanitizeInput(input) ==
    IF input.t = "undefined" THEN input
    ELSE IF input.t = "string" THEN Str(escapeHtml(input.s))
    ELSE IF input.t = "object" THEN Obj(escapeHtml(input.s))
    ELSE input

-----------------------------------------------------------------------------
(* The objects the pipelines of the model are declared with *)

Users == {"user-a", "user-b"}
Inputs == {Str(<<"<", "a">>), Undef}

\* RateLimitConfig objects, by identity
RlConfigIds == {"R1", "R2", "R3"}
RlConfig(id) ==
    CASE id = "R1" -> [maxRequests |-> Some(1), window |-> Some(<<"1", "s">>),
                       store |-> None, identifier |-> None]
      [] id = "R2" -> [maxRequests |-> Some(1), window |-> Some(<<"1", "s">>),
                       store |-> None, identifier |-> Some("byUserId")]
      [] id = "R3" -> [maxRequests |-> Some(1), window |-> Some(<<"a", "b", "c">>),
                       store |-> None, identifier |-> None]
      [] id = "R4" -> [maxRequests |-> Some(2), window |-> Some(<<"1", "s">>),
                       store |-> None, identifier |-> None]
      [] id = "R0" -> [maxRequests |-> Some(0), window |-> Some(<<"1", "s">>),
                       store |-> None, identifier |-> None]

\* AuditConfig objects, by identity
AuditConfigIds == {"A1"}
AuditConfig(id) ==
    IF id = "A2" THEN [action |-> "VIEW_PAGE", resource |-> "dashboard"]
    ELSE [action |-> "CREATE_POST", resource |-> "posts"]

\* schemas of the schema-validation collaborator: z.string(), and NameSchema,
\* z.object({ name: z.string().trim() }), whose data is a transformed copy
SchemaIds == {"string"}
NameSchema == "name"
safeParse(schema, input) ==
    IF schema = NameSchema
    THEN IF input.t = "object" THEN [success |-> TRUE, data |-> Obj(Trim(input.s))]
         ELSE [success |-> FALSE, data |-> Undef]
    ELSE IF input.t = "string" THEN [success |-> TRUE, data |-> input]
    ELSE [success |-> FALSE, data |-> Undef]

\* PipelineStep: config is the identity of the step's configuration object
Step(type, cfg) == [type |-> type, config |-> cfg]
NoConfig == "-"
StepOptions ==
    {Step("auth", NoConfig), Step("csrf", NoConfig), Step("sanitize", NoConfig)}
        \cup {Step("schema", c) : c \in SchemaIds}
        \cup {Step("rateLimit", c) : c \in RlConfigIds}
        \cup {Step("audit", c) : c \in AuditConfigIds}

\* what an auth provider built by customAuth(resolver) may do when called
AuthOutcomes ==
    {[threw |-> FALSE, user |-> u, error |-> ErrorOf("")] : u \in Users \cup {NULL}}
        \cup {[threw |-> TRUE, user |-> NULL,
               error |-> ErrorOf("Cannot read properties of undefined")]}

\* what a handler may do when called: return, throw an Error, throw a non-Error
HandlerOutcomes ==
    {[threw |-> FALSE, error |-> ErrorOf("")],
     [threw |-> TRUE, error |-> ErrorOf("Something went wrong internally")],
     [threw |-> TRUE, error |-> NonError]}

\* identifier: (ctx) => `custom:${ctx.user.id}` throws a TypeError on a null user
identifierApply(fn, ctx) ==
    IF ctx.user = NULL
    THEN [threw |-> TRUE, key |-> "",
          error |-> ErrorOf("Cannot read properties of null (reading 'id')")]
    ELSE [threw |-> FALSE, key |-> "custom:" \o ctx.user, error |-> ErrorOf("")]

-----------------------------------------------------------------------------
(* builder.ts: resolveRateLimitKey, getOrCreateLimiter *)

\* forwarded.split(",")[0].trim()
FirstForwarded(forwarded) == Trim(Split(forwarded, ",")[1])

\* (resolveRateLimitKeyIpFirst: the forwarded address taken before the user)
resolveRateLimitKeyIpFirst(ctx, rlConfig) ==
    IF rlConfig.identifier # None
    THEN identifierApply(Get(rlConfig.identifier), ctx)
    ELSE [threw |-> FALSE, error |-> ErrorOf(""),
          key |-> IF HeaderPresent(ctx.headers, "x-forwarded-for")
                          /\ ctx.headers["x-forwarded-for"] # <<>>
                  THEN "ip:" \o Join(FirstForwarded(ctx.headers["x-forwarded-for"]))
                  ELSE IF ctx.user # NULL THEN "user:" \o ctx.user
                  ELSE IF HeaderPresent(ctx.headers, "x-real-ip")
                          /\ ctx.headers["x-real-ip"] # <<>>
                  THEN "ip:" \o Join(Trim(ctx.headers["x-real-ip"]))
                  ELSE "anonymous"]
resolveRateLimitKey(ctx, rlConfig) ==
    IF rlConfig.identifier # None
    THEN identifierApply(Get(rlConfig.identifier), ctx)
    ELSE [threw |-> FALSE, error |-> ErrorOf(""),
          key |-> IF ctx.user # NULL THEN "user:" \o ctx.user
                  ELSE IF HeaderPresent(ctx.headers, "x-forwarded-for")
                          /\ ctx.headers["x-forwarded-for"] # <<>>
                  THEN "ip:" \o Join(FirstForwarded(ctx.headers["x-forwarded-for"]))
                  ELSE IF HeaderPresent(ctx.headers, "x-real-ip")
                          /\ ctx.headers["x-real-ip"] # <<>>
                  THEN "ip:" \o Join(Trim(ctx.headers["x-real-ip"]))
                  ELSE "anonymous"]

\* globalRl?.field
GlobalRl(cfg, field) == IF cfg.rateLimit = None THEN None ELSE Get(cfg.rateLimit)[field]

\* x && typeof x === "object" ? x : undefined, for a store option
\* ("memory", or a RateLimitStore object given by its index in stores)
ObjectStore(opt) ==
    IF opt # None /\ Get(opt).kind = "object" THEN Some(Get(opt).ref) ELSE None

\* getOrCreateLimiter(rlConfig) without the lookup in the cache: a limiter is
\* constructed at every call
getOrCreateLimiterUncached(cfg, cache, nStores, id) ==
    LET rlConfig == RlConfig(id)
        made == createRateLimiter(
            [maxRequests |-> Get(Coalesce(rlConfig.maxRequests,
                                 Coalesce(GlobalRl(cfg, "defaultMaxRequests"),
                                          Some(DefaultMaxRequests)))),
             window |-> Get(Coalesce(rlConfig.window,
                            Coalesce(GlobalRl(cfg, "defaultWindow"),
                                     Some(DefaultWindow)))),
             keyFn |-> None,
             store |-> Coalesce(ObjectStore(rlConfig.store),
                                ObjectStore(GlobalRl(cfg, "store")))],
            nStores)
    IN  [threw |-> made.threw, error |-> made.error, fresh |-> made.fresh,
         limiter |-> made.limiter,
         cache |-> IF made.threw THEN cache ELSE MapSet(cache, id, made.limiter)]

\* getOrCreateLimiter(rlConfig) on the cache: the limiter and the cache after the
\* call, or the Error createRateLimiter threw (nothing is cached then)
getOrCreateLimiter(cfg, cache, nStores, id) ==
    IF MapHas(cache, id)
    THEN [threw |-> FALSE, error |-> ErrorOf(""), fresh |-> FALSE,
          limiter |-> cache[id], cache |-> cache]
    ELSE LET rlConfig == RlConfig(id)
         IN  CHOOSE got \in {
                 [threw |-> made.threw, error |-> made.error, fresh |-> made.fresh,
                  limiter |-> made.limiter,
                  cache |-> IF made.threw THEN cache
                            ELSE MapSet(cache, id, made.limiter)]
                 : made \in {createRateLimiter(
                     [maxRequests |-> Get(Coalesce(rlConfig.maxRequests,
                                          Coalesce(GlobalRl(cfg, "defaultMaxRequests"),
                                                   Some(DefaultMaxRequests)))),
                      window |-> Get(Coalesce(rlConfig.window,
                                     Coalesce(GlobalRl(cfg, "defaultWindow"),
                                              Some(DefaultWindow)))),
                      keyFn |-> None,
                      store |-> Coalesce(ObjectStore(rlConfig.store),
                                         ObjectStore(GlobalRl(cfg, "store")))],
                     nStores)}} : TRUE

-----------------------------------------------------------------------------
(* builder.ts: the callable returned by action(handler).                    *)
(* JavaScript runs one job at a time: the code of an invocation runs from   *)
(* its call, or from the settling of the promise it awaits, to its next     *)
(* await or return, and no other invocation runs in between. The awaits are *)
(* those of auth.resolve, of the limiter and of the handler.                *)

Slots == 1..MaxInv

\* ActionResult
Success(data) == [success |-> TRUE, data |-> data]
Failure(error, code) == [success |-> FALSE, error |-> error, code |-> code]
NoResult == [pending |-> TRUE]

\* catch (error): error instanceof Error ? error.message : "Internal error"
\* (CaughtAsThrown: the message of whatever was thrown)
CaughtAsThrown(error) == Failure(error.message, "INTERNAL_ERROR")
Caught(error) ==
    Failure(IF error.isError THEN error.message ELSE "Internal error", "INTERNAL_ERROR")

\* { user: null, input, headers: new Headers(), metadata: {} }
\* (FreshCtxWired: headers carrying a matching token header and cookie)
FreshCtxWired(input) ==
    [user |-> NULL, input |-> input,
     headers |-> [h \in {"x-actionguard-csrf", "cookie"} |->
                     IF h = "cookie"
                     THEN <<"a", "c", "t", "i", "o", "n", "g", "u", "a", "r", "d", "-",
                            "c", "s", "r", "f", "=", "t">>
                     ELSE <<"t">>],
     metadata |-> EmptyMap]
FreshCtx(input) ==
    [user |-> NULL, input |-> input, headers |-> EmptyHeaders, metadata |-> EmptyMap]
\* a context no invocation holds any more
NoCtx == FreshCtx(Undef)

\* the context object the invocation in slot i allocates: one per call
\* (SharedCtxRef: one context object hoisted out of the callable)
SharedCtxRef(i) == 1
NewCtxRef(i) == i

NoLimit == [allowed |-> FALSE, remaining |-> 0, resetAt |-> 0]

\* status: idle (not invoked), running (its code is running), awaitAuth,
\* awaitLimiter, awaitHandler (suspended at that await), done (the promise
\* resolved with result), gone (the caller took the result).
\* limited is the RateLimitResult the limiter's promise settles to.
\* trace, handlerCalls, seen, resolved, thrown and raw are history: the steps
\* whose check ran, the handler's calls and parameters, what auth resolved, what
\* the catch clause caught and the raw argument.
IdleInv ==
    [status |-> "idle", action |-> 0, pc |-> 0, ctx |-> 0, result |-> NoResult,
     limited |-> NoLimit, raw |-> Undef, trace |-> <<>>,
     handlerCalls |-> 0, seen |-> NoCtx, resolved |-> NULL, thrown |-> None]

StepsOf(a) == builders[actions[a].builder]
Ctx(i) == ctxs[inv[i].ctx]
\* the for loop of invocation i is at a step of this type, and its code is running
\* (AtStepInTurn: a step that waits until no earlier invocation is in flight)
AtStepInTurn(i, type) ==
    /\ job = i
    /\ inv[i].status = "running"
    /\ inv[i].pc <= Len(StepsOf(inv[i].action))
    /\ StepsOf(inv[i].action)[inv[i].pc].type = type
    /\ \A j \in Slots : j < i => inv[j].status \in {"idle", "done", "gone"}
AtStep(i, type) ==
    /\ job = i
    /\ inv[i].status = "running"
    /\ inv[i].pc <= Len(StepsOf(inv[i].action))
    /\ StepsOf(inv[i].action)[inv[i].pc].type = type
CurConfig(i) == StepsOf(inv[i].action)[inv[i].pc].config

\* the invocation's record once its promise has resolved: the context is dropped
Resolved(r, result) ==
    [r EXCEPT !.status = "done", !.result = result, !.raw = Undef, !.seen = NoCtx,
              !.resolved = NULL, !.limited = NoLimit]

\* return result: the promise resolves; the steps of ran had their check run
\* (ReturnButGoOn: a loop that records the result and goes on to the next step)
ReturnButGoOn(i, result, ran) ==
    /\ ctxs' = ctxs
    /\ inv' = [inv EXCEPT ![i].result = result, ![i].trace = @ \o ran,
                          ![i].status = IF @ = "awaitHandler" THEN "done" ELSE "running",
                          ![i].pc = IF inv[i].status = "awaitHandler" THEN @ ELSE @ + 1]
    /\ job' = i
Return(i, result, ran) ==
    /\ ctxs' = [ctxs EXCEPT ![inv[i].ctx] = NoCtx]
    /\ inv' = [inv EXCEPT ![i] = Resolved([@ EXCEPT !.trace = @ \o ran], result)]
    /\ job' = i

\* catch (error) { return { success: false, error: message, code: "INTERNAL_ERROR" } }
Catch(i, error, ran) ==
    /\ ctxs' = [ctxs EXCEPT ![inv[i].ctx] = NoCtx]
    /\ inv' = [inv EXCEPT ![i] = Resolved([@ EXCEPT !.trace = @ \o ran,
                                                    !.thrown = Some(error)],
                                          Caught(error))]
    /\ job' = i

\* the caller's continuation takes the ActionResult; the invocation is over
GoneInv == [IdleInv EXCEPT !.status = "gone"]
Settle(i) ==
    /\ job = i
    /\ inv[i].status = "done"
    /\ inv' = [inv EXCEPT ![i] = GoneInv]
    /\ job' = 0
    /\ UNCHANGED <<direct, config, builders, actions, rateLimiterCache, stores, clock, ctxs,
                   console, checked>>

\* break: the synchronous step passed with context ctx, the loop goes on
\* (ContinueSkipping: a loop that steps over the step after a passed one)
ContinueSkipping(i, ctx) ==
    /\ ctxs' = [ctxs EXCEPT ![inv[i].ctx] = ctx]
    /\ inv' = [inv EXCEPT ![i].pc = @ + 2, ![i].trace = Append(@, inv[i].pc)]
    /\ job' = i
Continue(i, ctx) ==
    /\ ctxs' = [ctxs EXCEPT ![inv[i].ctx] = ctx]
    /\ inv' = [inv EXCEPT ![i].pc = @ + 1, ![i].trace = Append(@, inv[i].pc)]
    /\ job' = i

\* (...args) => { const input = args[0]; const ctx = {...}; try { for ... } }
Invoke(i, a, raw) ==
    /\ job = 0
    /\ inv[i].status = "idle"
    /\ \A j \in Slots : j < i => inv[j].status # "idle"
    /\ inv' = [inv EXCEPT ![i] = [IdleInv EXCEPT !.status = "running", !.action = a,
                                                 !.pc = 1, !.ctx = NewCtxRef(i),
                                                 !.raw = raw]]
    /\ ctxs' = [ctxs EXCEPT ![NewCtxRef(i)] = FreshCtx(raw)]
    /\ job' = i
    /\ UNCHANGED <<direct, config, builders, actions, rateLimiterCache, stores, clock,
                   console, checked>>

\* case "auth": config.auth.resolve(ctx.headers) is called and awaited
\* (AuthCallUnauthorized: a missing provider reported as an unauthorized caller)
AuthCallUnauthorized(i) ==
    /\ AtStep(i, "auth")
    /\ IF config.auth = None
       THEN /\ Return(i, Failure("Unauthorized", "AUTH_FAILED"), <<inv[i].pc>>)
       ELSE /\ inv' = [inv EXCEPT ![i].status = "awaitAuth",
                                  ![i].trace = Append(@, inv[i].pc)]
            /\ job' = 0
            /\ UNCHANGED ctxs
    /\ UNCHANGED <<direct, config, builders, actions, rateLimiterCache, stores, clock,
                   console, checked>>
AuthCall(i) ==
    /\ AtStep(i, "auth")
    /\ IF config.auth = None
       THEN /\ Catch(i, ErrorOf("Auth provider not configured"), <<inv[i].pc>>)
       ELSE /\ inv' = [inv EXCEPT ![i].status = "awaitAuth",
                                  ![i].trace = Append(@, inv[i].pc)]
            /\ job' = 0
            /\ UNCHANGED ctxs
    /\ UNCHANGED <<direct, config, builders, actions, rateLimiterCache, stores, clock,
                   console, checked>>

\* the provider's promise settles with out: a thrown error is caught,
\* if (!user) return AUTH_FAILED; ctx.user = user
AuthSettle(i, out) ==
    IF out.threw THEN Catch(i, out.error, <<>>)
    ELSE IF out.user = NULL
    THEN Return(i, Failure("Unauthorized", "AUTH_FAILED"), <<>>)
    ELSE /\ ctxs' = [ctxs EXCEPT ![inv[i].ctx] = [Ctx(i) EXCEPT !.user = out.user]]
         /\ inv' = [inv EXCEPT ![i].status = "running", ![i].pc = @ + 1,
                               ![i].resolved = out.user]
         /\ job' = i

\* the promise of a provider built by customAuth(resolver) settles
AuthResume(i) ==
    /\ job = 0
    /\ inv[i].status = "awaitAuth"
    /\ \E out \in AuthOutcomes : AuthSettle(i, out)
    /\ UNCHANGED <<direct, config, builders, actions, rateLimiterCache, stores, clock,
                   console, checked>>

\* case "schema"
\* (SchemaStepKeepingInput: a step that validates and leaves ctx.input as it was)
SchemaStepKeepingInput(i) ==
    /\ AtStep(i, "schema")
    /\ LET result == safeParse(CurConfig(i), Ctx(i).input)
       IN  IF ~result.success
           THEN Return(i, Failure("Validation failed", "VALIDATION_ERROR"), <<inv[i].pc>>)
           ELSE Continue(i, Ctx(i))
    /\ UNCHANGED <<direct, config, builders, actions, rateLimiterCache, stores, clock,
                   console, checked>>
SchemaStep(i) ==
    /\ AtStep(i, "schema")
    /\ LET result == safeParse(CurConfig(i), Ctx(i).input)
       IN  IF ~result.success
           THEN Return(i, Failure("Validation failed", "VALIDATION_ERROR"), <<inv[i].pc>>)
           ELSE Continue(i, [Ctx(i) EXCEPT !.input = result.data])
    /\ UNCHANGED <<direct, config, builders, actions, rateLimiterCache, stores, clock,
                   console, checked>>

\* history of one store check: the limiter's store, key, maxRequests and
\* windowMs, Date.now(), the answer, and for a pipeline's check the step's
\* configuration, the key resolveRateLimitKey returned and the invocation
CheckRecord(limiter, key, now, allowed, cfg, resolved, slot) ==
    [store |-> limiter.store, key |-> key, max |-> limiter.maxRequests,
     windowMs |-> limiter.windowMs, ts |-> now, allowed |-> allowed,
     cfg |-> cfg, resolved |-> resolved, slot |-> slot]

\* resetAt.toISOString()
toISOString(ms) == [iso |-> ms]

\* case "rateLimit": getOrCreateLimiter(rlConfig), resolveRateLimitKey(ctx,
\* rlConfig) and limiter(key), whose store check runs to its end inside the call;
\* the result is awaited. The cache is the rateLimiterCache of the guard g the
\* action was compiled by; g is 0 where a specification has one guard and
\* rateLimiterCache is its cache.
RateLimitCase(i, g) ==
    /\ AtStep(i, "rateLimit")
    /\ \E id \in {CurConfig(i)} :
       \E cache \in {IF g = 0 THEN rateLimiterCache ELSE rateLimiterCache[g]} :
       \E got \in {getOrCreateLimiter(config, cache, Len(stores), id)} :
         IF got.threw
         THEN /\ Catch(i, got.error, <<inv[i].pc>>)
              /\ UNCHANGED <<rateLimiterCache, stores, checked>>
         ELSE \E stores1 \in {IF got.fresh THEN Append(stores, EmptyMap) ELSE stores} :
              \E keyed \in {resolveRateLimitKey(Ctx(i), RlConfig(id))} :
              \E limiter \in {got.limiter} :
                /\ rateLimiterCache' = IF g = 0 THEN got.cache
                                        ELSE [rateLimiterCache EXCEPT ![g] = got.cache]
                /\ IF keyed.threw
                   THEN /\ Catch(i, keyed.error, <<inv[i].pc>>)
                        /\ stores' = stores1
                        /\ UNCHANGED checked
                   ELSE \E key \in {resolveKey(limiter.keyFn, keyed.key)} :
                        \E answer \in {StoreCheck(stores1[limiter.store], key,
                                                  limiter.maxRequests,
                                                  limiter.windowMs, clock)} :
                          /\ stores' = [stores1 EXCEPT ![limiter.store] = answer.windows]
                          /\ inv' = [inv EXCEPT
                               ![i].status = "awaitLimiter",
                               ![i].limited = answer.result,
                               ![i].trace = Append(@, inv[i].pc)]
                          /\ checked' = Append(checked,
                               CheckRecord(limiter, key, clock, answer.result.allowed,
                                           id, keyed.key, i))
                          /\ job' = 0
                          /\ UNCHANGED ctxs
    /\ UNCHANGED <<direct, config, builders, actions, clock, console>>

\* the rateLimit case in an action of the one guard of a specification
RateLimitCall(i) == RateLimitCase(i, 0)

\* the limiter's promise settles: if (!rlResult.allowed) return RATE_LIMITED;
\* ctx.metadata.rateLimit = {...}
RateLimitResume(i) ==
    /\ job = 0
    /\ inv[i].status = "awaitLimiter"
    /\ LET rlResult == inv[i].limited
       IN  IF ~rlResult.allowed
           THEN Return(i, Failure("Rate limit exceeded", "RATE_LIMITED"), <<>>)
           ELSE /\ ctxs' = [ctxs EXCEPT ![inv[i].ctx] = [Ctx(i) EXCEPT !.metadata =
                              MapSet(@, "rateLimit",
                                     [remaining |-> rlResult.remaining,
                                      resetAt |-> toISOString(rlResult.resetAt)])]]
                /\ inv' = [inv EXCEPT ![i].status = "running", ![i].pc = @ + 1,
                                      ![i].limited = NoLimit]
                /\ job' = i
    /\ UNCHANGED <<direct, config, builders, actions, rateLimiterCache, stores, clock,
                   console, checked>>

\* case "audit"
\* (AuditStepKeepingFirst: a step that leaves an audit configuration already in
\* the metadata alone)
AuditStepKeepingFirst(i) ==
    /\ AtStep(i, "audit")
    /\ Continue(i, IF MapHas(Ctx(i).metadata, "audit") THEN Ctx(i)
                   ELSE [Ctx(i) EXCEPT !.metadata =
                            MapSet(@, "audit", AuditConfig(CurConfig(i)))])
    /\ UNCHANGED <<direct, config, builders, actions, rateLimiterCache, stores, clock,
                   console, checked>>
AuditStep(i) ==
    /\ AtStep(i, "audit")
    /\ Continue(i, [Ctx(i) EXCEPT !.metadata = MapSet(@, "audit", AuditConfig(CurConfig(i)))])
    /\ UNCHANGED <<direct, config, builders, actions, rateLimiterCache, stores, clock,
                   console, checked>>

\* case "csrf"
CsrfStep(i) ==
    /\ AtStep(i, "csrf")
    /\ LET csrfResult == validateCsrf(Ctx(i).headers, config.csrf)
       IN  IF ~csrfResult.valid
           THEN Return(i, Failure(Get(Coalesce(csrfResult.error,
                                               Some("CSRF validation failed"))),
                                  "CSRF_FAILED"), <<inv[i].pc>>)
           ELSE Continue(i, Ctx(i))
    /\ UNCHANGED <<direct, config, builders, actions, rateLimiterCache, stores, clock,
                   console, checked>>

\* case "sanitize"
SanitizeStep(i) ==
    /\ AtStep(i, "sanitize")
    /\ Continue(i, [Ctx(i) EXCEPT !.input = sanitizeInput(@)])
    /\ UNCHANGED <<direct, config, builders, actions, rateLimiterCache, stores, clock,
                   console, checked>>

\* the loop has ended: handler({ input: ctx.input, ctx }) is called and awaited
HandlerCall(i) ==
    /\ job = i
    /\ inv[i].status = "running"
    /\ inv[i].pc = Len(StepsOf(inv[i].action)) + 1
    /\ inv' = [inv EXCEPT ![i].status = "awaitHandler", ![i].handlerCalls = @ + 1,
                          ![i].seen = Ctx(i)]
    /\ job' = 0
    /\ UNCHANGED <<direct, config, builders, actions, rateLimiterCache, stores, clock,
                   ctxs, console, checked>>

\* a user that is an object, { id: "user-1" }, where the others are strings
ObjectUser == "{ id: user-1 }"
\* String(user)
StringOf(user) == IF user = ObjectUser THEN "[object Object]" ELSE user

\* the record written after the handler; userId: ctx.user ? String(ctx.user) : "anonymous"
AuditRecord(ctx, now) ==
    [timestamp |-> toISOString(now),
     action |-> ctx.metadata["audit"].action,
     resource |-> ctx.metadata["audit"].resource,
     userId |-> IF ctx.user # NULL THEN StringOf(ctx.user) ELSE "anonymous",
     success |-> TRUE]

\* the handler's promise settles: the audit record and the success result, or the
\* catch clause. The handlers of the model return the input they were given.
\* (HandlerReturnLoggingAlways: the audit log moved into a finally clause)
HandlerReturnLoggingAlways(i) ==
    /\ job = 0
    /\ inv[i].status = "awaitHandler"
    /\ \E out \in HandlerOutcomes :
         /\ IF out.threw
            THEN Catch(i, out.error, <<>>)
            ELSE Return(i, Success(Ctx(i).input), <<>>)
         /\ console' = IF MapHas(Ctx(i).metadata, "audit")
                       THEN Append(console, AuditRecord(Ctx(i), clock))
                       ELSE console
    /\ UNCHANGED <<direct, config, builders, actions, rateLimiterCache, stores, clock, checked>>
HandlerReturn(i) ==
    /\ job = 0
    /\ inv[i].status = "awaitHandler"
    /\ \E out \in HandlerOutcomes :
         IF out.threw
         THEN /\ Catch(i, out.error, <<>>)
              /\ UNCHANGED console
         ELSE /\ Return(i, Success(Ctx(i).input), <<>>)
              /\ console' = IF MapHas(Ctx(i).metadata, "audit")
                            THEN Append(console, AuditRecord(Ctx(i), clock))
                            ELSE console
    /\ UNCHANGED <<direct, config, builders, actions, rateLimiterCache, stores, clock, checked>>

\* time passes between jobs
Tick ==
    /\ job = 0
    /\ clock < MaxTicks * TickMs
    /\ clock' = clock + TickMs
    /\ UNCHANGED <<direct, config, builders, actions, rateLimiterCache, stores, inv, ctxs,
                   job, console, checked>>

-----------------------------------------------------------------------------
(* Specifications of the executor: one action compiled from a pipeline the   *)
(* builder can declare is invoked up to MaxInv times. In Spec each call is   *)
(* awaited before the next is made; in SpecConcurrent the calls overlap.     *)

\* the guard has no sanitize(): a pipeline never starts with a sanitize step
PipelinesUpTo(len) ==
    {p \in UNION {[1..n -> StepOptions] : n \in 0..len} :
        p # <<>> => p[1].type # "sanitize"}

Configs == [auth : {None, Some("customAuth")}, rateLimit : {None}, csrf : {None}]

\* a guard with a provider and a csrf configuration naming the header
NamedCsrfConfigs ==
    {[auth |-> Some("customAuth"), rateLimit |-> None,
      csrf |-> Some([cookieName |-> None, headerName |-> Some("x-csrf")])]}

InitWith(pipelines, configs) ==
    /\ config \in configs
    /\ \E p \in pipelines : builders = <<p>>
    /\ actions = <<[builder |-> 1]>>
    /\ rateLimiterCache = EmptyMap
    /\ stores = <<>>
    /\ clock = 0
    /\ inv = [i \in Slots |-> IdleInv]
    /\ ctxs = [i \in Slots |-> NoCtx]
    /\ job = 0
    /\ console = <<>>
    /\ checked = <<>>
    /\ direct = NoCall

\* const r = await myAction(raw): no earlier call is still in flight
AwaitedInvoke(i, a, raw) ==
    /\ \A j \in Slots : inv[j].status \in {"idle", "gone"}
    /\ Invoke(i, a, raw)

Init == InitWith(PipelinesUpTo(MaxSteps), Configs \cup NamedCsrfConfigs)

Next ==
    \/ \E i \in Slots, raw \in Inputs : AwaitedInvoke(i, 1, raw)
    \/ \E i \in Slots : AuthCall(i)
    \/ \E i \in Slots : AuthResume(i)
    \/ \E i \in Slots : SchemaStep(i)
    \/ \E i \in Slots : RateLimitCall(i)
    \/ \E i \in Slots : RateLimitResume(i)
    \/ \E i \in Slots : AuditStep(i)
    \/ \E i \in Slots : CsrfStep(i)
    \/ \E i \in Slots : SanitizeStep(i)
    \/ \E i \in Slots : HandlerCall(i)
    \/ \E i \in Slots : HandlerReturn(i)
    \/ \E i \in Slots : Settle(i)
    \/ Tick

Spec == Init /\ [][Next]_vars

\* the pipelines of up to MaxConcSteps steps, and schema(s).sanitize()
ConcurrentPipelines ==
    PipelinesUpTo(MaxConcSteps)
        \cup {<<Step("schema", c), Step("sanitize", NoConfig)>> : c \in SchemaIds}

InitConcurrent == InitWith(ConcurrentPipelines, Configs)

NextConcurrent ==
    \/ \E i \in Slots, raw \in Inputs : Invoke(i, 1, raw)
    \/ \E i \in Slots : AuthCall(i)
    \/ \E i \in Slots : AuthResume(i)
    \/ \E i \in Slots : SchemaStep(i)
    \/ \E i \in Slots : RateLimitCall(i)
    \/ \E i \in Slots : RateLimitResume(i)
    \/ \E i \in Slots : AuditStep(i)
    \/ \E i \in Slots : CsrfStep(i)
    \/ \E i \in Slots : SanitizeStep(i)
    \/ \E i \in Slots : HandlerCall(i)
    \/ \E i \in Slots : HandlerReturn(i)
    \/ \E i \in Slots : Settle(i)
    \/ Tick

SpecConcurrent == InitConcurrent /\ [][NextConcurrent]_vars

-----------------------------------------------------------------------------
(* builder.ts: createBuilder and the guard instance. Specification of the   *)
(* builder: builders are chained and actions compiled, nothing is invoked.  *)

\* createBuilder([...steps, step]) called on builder b: the builders afterwards
\* (chainPushingInPlace: steps.push(step) on the array the builder holds)
chainPushingInPlace(bs, b, step) ==
    Append([bs EXCEPT ![b] = Append(@, step)], Append(bs[b], step))
chain(bs, b, step) == Append(bs, bs[b] \o <<step>>)

\* b.auth(), b.schema(s), b.rateLimit(c), b.audit(c), b.csrf(), b.sanitize()
Chain(b, step) ==
    /\ Len(builders) < MaxBuilders
    /\ b \in DOMAIN builders
    /\ Len(builders[b]) < MaxSteps
    /\ builders' = chain(builders, b, step)
    /\ UNCHANGED <<direct, config, actions, rateLimiterCache, stores, clock, inv, ctxs, job,
                   console, checked>>

\* guard.auth(), guard.schema(s), guard.rateLimit(c), guard.audit(c), guard.csrf():
\* createBuilder([step]); the guard has no sanitize()
GuardChain(step) ==
    /\ Len(builders) < MaxBuilders
    /\ step.type # "sanitize"
    /\ builders' = Append(builders, <<step>>)
    /\ UNCHANGED <<direct, config, actions, rateLimiterCache, stores, clock, inv, ctxs, job,
                   console, checked>>

\* b.action(handler): the callable closes over the builder's steps array
BuilderAction(b) ==
    /\ Len(actions) < MaxActions
    /\ b \in DOMAIN builders
    /\ actions' = Append(actions, [builder |-> b])
    /\ UNCHANGED <<direct, config, builders, rateLimiterCache, stores, clock, inv, ctxs, job,
                   console, checked>>

\* guard.action(handler): createBuilder().action(handler)
GuardAction ==
    /\ Len(actions) < MaxActions
    /\ Len(builders) < MaxBuilders
    /\ builders' = Append(builders, <<>>)
    /\ actions' = Append(actions, [builder |-> Len(builders) + 1])
    /\ UNCHANGED <<direct, config, rateLimiterCache, stores, clock, inv, ctxs, job,
                   console, checked>>

InitBuilder ==
    /\ config = [auth |-> None, rateLimit |-> None, csrf |-> None]
    /\ builders = <<>>
    /\ actions = <<>>
    /\ rateLimiterCache = EmptyMap
    /\ stores = <<>>
    /\ clock = 0
    /\ inv = [i \in Slots |-> IdleInv]
    /\ ctxs = [i \in Slots |-> NoCtx]
    /\ job = 0
    /\ console = <<>>
    /\ checked = <<>>
    /\ direct = NoCall

NextBuilder ==
    \/ \E b \in DOMAIN builders, step \in StepOptions : Chain(b, step)
    \/ \E step \in StepOptions : GuardChain(step)
    \/ \E b \in DOMAIN builders : BuilderAction(b)
    \/ GuardAction

SpecBuilder == InitBuilder /\ [][NextBuilder]_vars

-----------------------------------------------------------------------------
(* rate-limit.ts: a limiter made by createRateLimiter({ maxRequests, window, *)
(* keyFn }) on its own MemoryRateLimitStore. Specification of the limiter:  *)
(* it is called with the arguments of LimiterArgs while time passes.        *)

LimiterArgs == {"a", "b"}
Standalone == "standalone"

DigitChar(n) ==
    CASE n = 0 -> "0" [] n = 1 -> "1" [] n = 2 -> "2" [] n = 3 -> "3" [] n = 4 -> "4"
      [] n = 5 -> "5" [] n = 6 -> "6" [] n = 7 -> "7" [] n = 8 -> "8" [] n = 9 -> "9"

\* limiter(arg): backingStore.check(resolveKey(arg), maxRequests, windowMs)
LimiterCheck(arg) ==
    /\ Len(checked) < MaxChecks
    /\ LET limiter == rateLimiterCache[Standalone]
           key == resolveKey(limiter.keyFn, arg)
           answer == StoreCheck(stores[limiter.store], key, limiter.maxRequests,
                                limiter.windowMs, clock)
       IN  /\ stores' = [stores EXCEPT ![limiter.store] = answer.windows]
           /\ checked' = Append(checked,
                CheckRecord(limiter, key, clock, answer.result.allowed, Standalone, arg, 0))
    /\ UNCHANGED <<direct, config, builders, actions, rateLimiterCache, clock, inv, ctxs, job,
                   console>>

\* time passes
LimiterTick ==
    /\ clock < MaxHalves * HalfMs
    /\ clock' = clock + HalfMs
    /\ UNCHANGED <<direct, config, builders, actions, rateLimiterCache, stores, inv, ctxs,
                   job, console, checked>>

InitLimiter ==
    /\ config = [auth |-> None, rateLimit |-> None, csrf |-> None]
    /\ builders = <<>>
    /\ actions = <<>>
    /\ \E n \in 1..MaxN, w \in 1..MaxW :
         LET made == createRateLimiter([maxRequests |-> n, window |-> <<DigitChar(w), "s">>,
                                        keyFn |-> Some("userKey"), store |-> None], 0)
         IN  rateLimiterCache = MapSet(EmptyMap, Standalone, made.limiter)
    /\ stores = <<EmptyMap>>
    /\ clock = 0
    /\ inv = [i \in Slots |-> IdleInv]
    /\ ctxs = [i \in Slots |-> NoCtx]
    /\ job = 0
    /\ console = <<>>
    /\ checked = <<>>
    /\ direct = NoCall

NextLimiter ==
    \/ \E arg \in LimiterArgs : LimiterCheck(arg)
    \/ LimiterTick

SpecLimiter == InitLimiter /\ [][NextLimiter]_vars

\* limiter.reset(arg): backingStore.reset(resolveKey(arg))
LimiterReset(arg) ==
    /\ LET limiter == rateLimiterCache[Standalone]
           key == resolveKey(limiter.keyFn, arg)
       IN  stores' = [stores EXCEPT ![limiter.store] = StoreReset(@, key)]
    /\ UNCHANGED <<direct, config, builders, actions, rateLimiterCache, clock, inv, ctxs,
                   job, console, checked>>

\* Specification of the store: the limiter is called and reset while time passes
StoreCheckCall(arg) ==
    /\ Len(checked) < MaxStoreChecks
    /\ LimiterCheck(arg)

StoreTick ==
    /\ clock < MaxStoreHalves * HalfMs
    /\ LimiterTick

NextStore ==
    \/ \E arg \in LimiterArgs : StoreCheckCall(arg)
    \/ \E arg \in LimiterArgs : LimiterReset(arg)
    \/ StoreTick

SpecStore == InitLimiter /\ [][NextStore]_vars

-----------------------------------------------------------------------------
(* Properties of the executor *)

HasResult(i) == inv[i].result # NoResult
Live(i) == inv[i].status \in {"running", "awaitAuth", "awaitLimiter", "awaitHandler"}
UpTo(k) == [j \in 1..k |-> j]

StepFailureCodes == {"AUTH_FAILED", "VALIDATION_ERROR", "RATE_LIMITED", "CSRF_FAILED"}
Codes == StepFailureCodes \cup {"INTERNAL_ERROR"}
FailureCodeOf(type) ==
    CASE type = "auth" -> "AUTH_FAILED"
      [] type = "schema" -> "VALIDATION_ERROR"
      [] type = "rateLimit" -> "RATE_LIMITED"
      [] type = "csrf" -> "CSRF_FAILED"
      [] OTHER -> "none"

\* C1: Short-circuit. Whenever an invocation holds a result with one of the four
\* step failure codes, the steps whose check ran are exactly steps 1..k in
\* order, the code is the failure code of step k (the failing step), no later
\* step ran, the handler was never called and the invocation has ended.
ShortCircuit ==
    \A i \in Slots :
        (HasResult(i) /\ ~inv[i].result.success
                      /\ inv[i].result.code \in StepFailureCodes) =>
            LET steps == StepsOf(inv[i].action)
                k == Len(inv[i].trace)
            IN  /\ k >= 1
                /\ k <= Len(steps)
                /\ inv[i].trace = UpTo(k)
                /\ inv[i].result.code = FailureCodeOf(steps[k].type)
                /\ inv[i].handlerCalls = 0
                /\ inv[i].status = "done"

\* the pipeline [auth, schema] resolved AUTH_FAILED after the auth check alone
ShortCircuitWitness ==
    \E i \in Slots :
        /\ inv[i].status = "done"
        /\ inv[i].result = Failure("Unauthorized", "AUTH_FAILED")
        /\ Len(StepsOf(inv[i].action)) = 2
        /\ StepsOf(inv[i].action)[1].type = "auth"
        /\ StepsOf(inv[i].action)[2].type = "schema"
        /\ inv[i].trace = <<1>>
        /\ inv[i].handlerCalls = 0

\* C2: No exception crosses the action boundary. An invocation is only ever
\* running, suspended at an await, resolved or over (it never rejects); a
\* resolved invocation holds an ActionResult; and whatever was thrown inside it
\* (by the auth provider, the identifier function, the construction of the
\* limiter, a missing provider or the handler) was caught and resolved as
\* INTERNAL_ERROR with the message of the Error, or "Internal error" for a
\* value that is not an Error.
NoEscape ==
    \A i \in Slots :
        /\ inv[i].status \in {"idle", "running", "awaitAuth", "awaitLimiter",
                              "awaitHandler", "done", "gone"}
        /\ inv[i].status = "done" =>
              /\ HasResult(i)
              /\ \/ inv[i].result.success
                 \/ inv[i].result.code \in Codes
        /\ inv[i].thrown # None =>
              /\ inv[i].status = "done"
              /\ inv[i].result =
                    [success |-> FALSE,
                     error |-> IF Get(inv[i].thrown).isError
                               THEN Get(inv[i].thrown).message
                               ELSE "Internal error",
                     code |-> "INTERNAL_ERROR"]

\* a handler threw a value that is not an Error, and the call resolved
NoEscapeWitness ==
    \E i \in Slots :
        /\ inv[i].status = "done"
        /\ inv[i].thrown = Some(NonError)
        /\ inv[i].handlerCalls = 1
        /\ inv[i].result = Failure("Internal error", "INTERNAL_ERROR")

-----------------------------------------------------------------------------
(* Properties of the limiter *)

SameKey(e, f) == e.store = f.store /\ e.key = f.key

\* the checks before the k-th, on its store and key, that were admitted with a
\* timestamp later than from
AdmittedBefore(k, from) ==
    {j \in 1..(k - 1) : /\ SameKey(checked[j], checked[k])
                        /\ checked[j].allowed
                        /\ checked[j].ts > from}

\* the admitted checks on the store and key of e whose timestamp is in (t - W, t]
AdmittedIn(e, t) ==
    {j \in 1..Len(checked) : /\ SameKey(checked[j], e)
                             /\ checked[j].allowed
                             /\ checked[j].ts > t - e.windowMs
                             /\ checked[j].ts <= t}

\* C3: Sliding-window bound. With maxRequests = n and windowMs = W fixed, a
\* check at time t on a key is admitted exactly when fewer than n earlier checks
\* on that key were admitted with a timestamp in (t - W, t] (so the (n+1)th is
\* denied until the oldest admitted timestamp has aged out), and in every
\* reachable state the admitted checks on a key with timestamps in any interval
\* (t - W, t] number at most n. The count over an interval is largest at an
\* interval ending on a timestamp, so t ranges over the timestamps and the clock.
SlidingWindow ==
    \A k \in 1..Len(checked) :
        LET e == checked[k]
        IN  /\ e.allowed <=> Cardinality(AdmittedBefore(k, e.ts - e.windowMs)) < e.max
            /\ \A t \in {checked[j].ts : j \in 1..Len(checked)} \cup {clock} :
                   Cardinality(AdmittedIn(e, t)) <= e.max

\* a key used up its budget, was denied, and was admitted again once the oldest
\* admitted timestamp had aged out
SlidingWindowWitness ==
    \E j, k, l \in 1..Len(checked) :
        /\ j < k /\ k < l
        /\ SameKey(checked[j], checked[k]) /\ SameKey(checked[k], checked[l])
        /\ checked[j].allowed
        /\ ~checked[k].allowed
        /\ Cardinality(AdmittedBefore(k, checked[k].ts - checked[k].windowMs))
              = checked[k].max
        /\ checked[l].allowed
        /\ checked[l].ts < checked[k].ts + checked[k].windowMs

\* the checks the store answered on a key, in order, and their timestamps
LogFor(s, key) == SelectSeq(checked, LAMBDA e : e.store = s /\ e.key = key)
TimestampsOf(log) == [j \in 1..Len(log) |-> log[j].ts]

\* what the store holds for a key if every admission was counted once: the
\* timestamps admitted inside the window of the last check on the key
CountedOnce(s, key) ==
    LET log == LogFor(s, key)
        last == log[Len(log)]
    IN  TimestampsOf(SelectSeq(log, LAMBDA e : e.allowed
                                               /\ e.ts > last.ts - last.windowMs))

\* C4: Limiter under concurrency. Whatever the interleaving of the invocations,
\* each check reads, prunes, appends and writes back its key's sequence with no
\* other check in between: the sequence a store holds for a key is exactly the
\* admissions of the checks on that key (none lost, none counted twice), every
\* invocation suspended on the limiter holds the answer of its own check, and
\* of the checks issued within one window at most maxRequests are admitted.
LimiterSerialized ==
    /\ \A s \in DOMAIN stores : \A key \in DOMAIN stores[s] :
           /\ LogFor(s, key) # <<>>
           /\ stores[s][key] = CountedOnce(s, key)
    /\ \A k \in 1..Len(checked) :
           /\ checked[k].store \in DOMAIN stores
           /\ checked[k].key \in DOMAIN stores[checked[k].store]
           /\ Cardinality(AdmittedIn(checked[k], checked[k].ts)) <= checked[k].max
    /\ \A i \in Slots :
           inv[i].status = "awaitLimiter" =>
               \E k \in 1..Len(checked) :
                   /\ checked[k].slot = i
                   /\ checked[k].allowed = inv[i].limited.allowed

\* two invocations are suspended on the same limiter key at once, one admitted
\* and one denied
LimiterSerializedWitness ==
    \E i, j \in Slots : \E k, l \in 1..Len(checked) :
        /\ i # j
        /\ inv[i].status = "awaitLimiter" /\ inv[j].status = "awaitLimiter"
        /\ checked[k].slot = i /\ checked[l].slot = j
        /\ SameKey(checked[k], checked[l])
        /\ checked[k].ts = checked[l].ts
        /\ inv[i].limited.allowed /\ ~inv[j].limited.allowed

\* C5: Per-identifier budgets in the pipeline. For a rateLimit step with an
\* identifier function, a check is denied only if the key the identifier
\* returned for that caller has itself used up maxRequests within the window:
\* the admissions of another identifier's key never deny it.
PerIdentifierBudget ==
    \A k \in 1..Len(checked) :
        LET e == checked[k]
        IN  (e.cfg \in RlConfigIds /\ RlConfig(e.cfg).identifier # None /\ ~e.allowed) =>
                Cardinality({j \in 1..(k - 1) : /\ checked[j].cfg = e.cfg
                                                /\ checked[j].resolved = e.resolved
                                                /\ checked[j].allowed
                                                /\ checked[j].ts > e.ts - e.windowMs})
                    >= e.max

\* the rateLimit configurations whose window string parseWindow rejects
MalformedWindows ==
    {c \in RlConfigIds : RlConfig(c).window # None
                         /\ parseWindow(Get(RlConfig(c).window)).threw}

\* C6: Configuration errors fail at setup. A malformed window string is
\* raised when the step is declared or the action compiled: no invocation ever
\* resolves to a failure result carrying the window's parse error.
WindowErrorsAtSetup ==
    \A i \in Slots : \A c \in MalformedWindows :
        HasResult(i) =>
            inv[i].result # Failure(parseWindow(Get(RlConfig(c).window)).error.message,
                                    "INTERNAL_ERROR")

-----------------------------------------------------------------------------
(* Properties of the order of execution, the codes and the context *)

\* C7: Declared order. In every invocation the steps whose check has run are
\* steps 1, 2, ... of the builder's list in that order, each once; the handler
\* is called at most once, only when every declared step has run and passed,
\* and exactly once when they all passed; and with zero steps the handler is
\* given the raw input, a null user and empty metadata.
DeclaredOrder ==
    \A i \in Slots :
        inv[i].status \notin {"idle", "gone"} =>
            LET steps == StepsOf(inv[i].action)
                tr == inv[i].trace
            IN  /\ Len(tr) <= Len(steps)
                /\ tr = UpTo(Len(tr))
                /\ inv[i].status = "running" => inv[i].pc = Len(tr) + 1
                /\ inv[i].handlerCalls <= 1
                /\ inv[i].handlerCalls = 1 =>
                      /\ tr = UpTo(Len(steps))
                      /\ inv[i].pc = Len(steps) + 1
                      /\ HasResult(i) =>
                            \/ inv[i].result.success
                            \/ inv[i].thrown # None
                /\ (inv[i].status \in {"awaitHandler", "done"}
                        /\ inv[i].pc = Len(steps) + 1) => inv[i].handlerCalls = 1
                /\ (HasResult(i) /\ inv[i].result.success) => inv[i].handlerCalls = 1
                /\ (inv[i].status = "awaitHandler" /\ steps = <<>>) =>
                      /\ inv[i].seen = FreshCtx(inv[i].raw)
                      /\ inv[i].seen.user = NULL
                      /\ inv[i].seen.metadata = EmptyMap

\* the handler of a two-step pipeline is called after steps 1 and 2 ran in order
DeclaredOrderWitness ==
    \E i \in Slots :
        /\ inv[i].status = "awaitHandler"
        /\ Len(StepsOf(inv[i].action)) = 2
        /\ StepsOf(inv[i].action)[1].type # StepsOf(inv[i].action)[2].type
        /\ inv[i].trace = <<1, 2>>
        /\ inv[i].handlerCalls = 1

\* C8: Closed error taxonomy. Every failure result has one of the five codes,
\* and the code follows from the failing step: an auth step gives AUTH_FAILED
\* when the provider resolved no user and INTERNAL_ERROR ("Auth provider not
\* configured") when no provider is configured; a schema step gives
\* VALIDATION_ERROR; a rateLimit step gives RATE_LIMITED when the limiter
\* denied; a csrf step gives CSRF_FAILED; anything thrown gives INTERNAL_ERROR;
\* and the failing step is never a sanitize or an audit step.
ClosedTaxonomy ==
    \A i \in Slots :
        (HasResult(i) /\ ~inv[i].result.success) =>
            LET steps == StepsOf(inv[i].action)
                k == Len(inv[i].trace)
                code == inv[i].result.code
            IN  /\ code \in Codes
                /\ inv[i].thrown # None => code = "INTERNAL_ERROR"
                /\ inv[i].handlerCalls = 1 => code = "INTERNAL_ERROR"
                /\ inv[i].handlerCalls = 0 =>
                      /\ k >= 1
                      /\ steps[k].type \notin {"sanitize", "audit"}
                      /\ steps[k].type = "auth" =>
                            /\ config.auth = None =>
                                  inv[i].result = Failure("Auth provider not configured",
                                                          "INTERNAL_ERROR")
                            /\ (config.auth # None /\ inv[i].thrown = None) =>
                                  code = "AUTH_FAILED"
                      /\ steps[k].type = "schema" => code = "VALIDATION_ERROR"
                      /\ (steps[k].type = "rateLimit" /\ inv[i].thrown = None) =>
                            code = "RATE_LIMITED"
                      /\ steps[k].type = "csrf" => code = "CSRF_FAILED"
                /\ code = "AUTH_FAILED" => steps[k].type = "auth"
                /\ code = "VALIDATION_ERROR" => steps[k].type = "schema"
                /\ code = "RATE_LIMITED" => steps[k].type = "rateLimit"
                /\ code = "CSRF_FAILED" => steps[k].type = "csrf"

\* an auth step reached with no provider configured resolved INTERNAL_ERROR
ClosedTaxonomyWitness ==
    \E i \in Slots :
        /\ inv[i].status = "done"
        /\ config.auth = None
        /\ inv[i].trace # <<>>
        /\ StepsOf(inv[i].action)[Len(inv[i].trace)].type = "auth"
        /\ inv[i].result = Failure("Auth provider not configured", "INTERNAL_ERROR")

\* C9: Builder immutability. Every step of the builder specification leaves
\* the step list of every existing builder, and so of every action compiled
\* from it, as it was; a builder it adds holds the step list of an existing
\* builder followed by one step (or one step alone, or none, when made by the
\* guard); and it runs no check: no invocation, context, limiter, store or log
\* changes.
BuilderImmutable ==
    [][/\ \A b \in DOMAIN builders :
              b \in DOMAIN builders' /\ builders'[b] = builders[b]
       /\ \A a \in DOMAIN actions :
              /\ a \in DOMAIN actions'
              /\ actions'[a] = actions[a]
              /\ builders'[actions'[a].builder] = builders[actions[a].builder]
       /\ \A a \in DOMAIN actions' : actions'[a].builder \in DOMAIN builders'
       /\ Len(builders') <= Len(builders) + 1
       /\ Len(builders') = Len(builders) + 1 =>
              LET new == builders'[Len(builders')]
              IN  \/ new = <<>>
                  \/ \E step \in StepOptions : new = <<step>>
                  \/ \E b \in DOMAIN builders, step \in StepOptions :
                         new = builders[b] \o <<step>>
       /\ UNCHANGED <<inv, ctxs, rateLimiterCache, stores, checked, console>>
      ]_vars

\* two builders were chained from one shared base builder with different steps,
\* and an action was compiled from the base
BuilderImmutableWitness ==
    \E b1, b2, b3 \in DOMAIN builders : \E s2, s3 \in StepOptions :
        /\ b1 # b2 /\ b1 # b3 /\ b2 # b3
        /\ s2 # s3
        /\ builders[b1] # <<>>
        /\ builders[b2] = builders[b1] \o <<s2>>
        /\ builders[b3] = builders[b1] \o <<s3>>
        /\ \E a \in DOMAIN actions : actions[a].builder = b1

\* ctx.input after the first k steps of a pipeline passed on the raw argument
RECURSIVE InputAfter(_, _, _)
InputAfter(raw, steps, k) ==
    IF k = 0 THEN raw
    ELSE LET before == InputAfter(raw, steps, k - 1)
         IN  IF steps[k].type = "schema" THEN safeParse(steps[k].config, before).data
             ELSE IF steps[k].type = "sanitize" THEN sanitizeInput(before)
             ELSE before

\* the keys of ctx.metadata after the first k steps of a pipeline passed
MetadataKeysAfter(steps, k) ==
    {steps[j].type : j \in {x \in 1..k : steps[x].type \in {"rateLimit", "audit"}}}

\* C10: Per-call context isolation. The invocations in flight hold pairwise
\* different context objects; a context starts as user null, the raw argument
\* and empty metadata; and at every moment the context of an invocation holds
\* what that invocation's own steps made of its own raw argument (the user its
\* own auth step resolved, its own input validated and sanitized, the metadata
\* of its own steps), whatever the other invocations do in between; the handler
\* is given that context.
ContextIsolation ==
    /\ \A i, j \in Slots : (i # j /\ Live(i) /\ Live(j)) => inv[i].ctx # inv[j].ctx
    /\ \A i \in Slots :
           Live(i) =>
               LET steps == StepsOf(inv[i].action)
                   passed == inv[i].pc - 1
               IN  /\ passed = 0 => Ctx(i) = FreshCtx(inv[i].raw)
                   /\ Ctx(i).user = inv[i].resolved
                   /\ Ctx(i).input = InputAfter(inv[i].raw, steps, passed)
                   /\ DOMAIN Ctx(i).metadata = MetadataKeysAfter(steps, passed)
                   /\ Ctx(i).headers = EmptyHeaders
                   /\ inv[i].status = "awaitHandler" => inv[i].seen = Ctx(i)

\* two invocations are suspended in their handlers at once, each holding its own
\* user and its own input
ContextIsolationWitness ==
    \E i, j \in Slots :
        /\ i # j
        /\ inv[i].status = "awaitHandler" /\ inv[j].status = "awaitHandler"
        /\ inv[i].seen.user = "user-a" /\ inv[j].seen.user = "user-b"
        /\ inv[i].raw # inv[j].raw

-----------------------------------------------------------------------------
(* Properties of the audit log *)

\* a pipeline declares an audit step
DeclaresAudit(steps) == \E k \in 1..Len(steps) : steps[k].type = "audit"

\* C11: Audit only on the success path. A step of the program writes at most one
\* audit record, after the records already written, and it writes one exactly
\* when the handler of an invocation whose pipeline declares an audit step
\* returns without throwing: that invocation has run and passed every declared
\* step, its handler was called once, and it resolves with the success result
\* in the same step. No record is written when a step fails or the handler
\* throws.
AuditOnSuccessOnly ==
    [][/\ Len(console') - Len(console) \in {0, 1}
       /\ SubSeq(console', 1, Len(console)) = console
       /\ Len(console') = Len(console) + 1 <=>
              \E i \in Slots :
                  /\ inv[i].status = "awaitHandler"
                  /\ inv'[i].status = "done"
                  /\ inv'[i].thrown = None
                  /\ inv'[i].result.success
                  /\ DeclaresAudit(StepsOf(inv[i].action))
                  /\ inv[i].trace = UpTo(Len(StepsOf(inv[i].action)))
                  /\ inv[i].handlerCalls = 1
      ]_vars

\* an invocation of a pipeline with an audit step succeeded and its record is
\* the last line written
AuditOnSuccessOnlyWitness ==
    \E i \in Slots :
        /\ inv[i].status = "done"
        /\ inv[i].result # NoResult
        /\ inv[i].result.success
        /\ DeclaresAudit(StepsOf(inv[i].action))
        /\ console # <<>>
        /\ console[Len(console)].success

-----------------------------------------------------------------------------
(* Properties of MemoryRateLimitStore *)

\* the admitted checks on a key that still count at time now: an admission at t
\* counts while now < t + windowMs
StillCounted(key, windowMs, now) ==
    {j \in 1..Len(checked) : /\ checked[j].key = key
                             /\ checked[j].allowed
                             /\ now < checked[j].ts + windowMs}

\* C12: True sliding window. In every reachable state of the limiter, a check
\* of a key at the current time is admitted if and only if fewer than
\* maxRequests admitted timestamps ts of that key satisfy ts > now - windowMs,
\* and its remaining is maxRequests less the timestamps then counted: an
\* admission at t counts while now < t + windowMs and no longer at t + windowMs,
\* whatever the alignment of t. Every check the store has answered was decided
\* the same way.
TrueSlidingWindow ==
    LET limiter == rateLimiterCache[Standalone]
        n == limiter.maxRequests
        W == limiter.windowMs
    IN  /\ \A arg \in LimiterArgs :
               LET key == resolveKey(limiter.keyFn, arg)
                   counted == Cardinality(StillCounted(key, W, clock))
                   answer == StoreCheck(stores[limiter.store], key, n, W, clock).result
               IN  /\ answer.allowed <=> counted < n
                   /\ answer.remaining =
                         Max(0, n - (counted + IF answer.allowed THEN 1 ELSE 0))
        /\ \A k \in 1..Len(checked) :
               checked[k].allowed <=>
                   Cardinality({j \in StillCounted(checked[k].key, W, checked[k].ts) :
                                   j < k}) < n

\* with maxRequests 2, admissions at t0 and t0 + d (0 < d < W) and a third
\* admission after t0 + W and before t0 + d + W: the first aged out, the second
\* still counts, the store holds the second and the third and remaining is 0
TrueSlidingWindowWitness ==
    \E j, k, l \in 1..Len(checked) :
        /\ j < k /\ k < l /\ l = Len(checked)
        /\ checked[j].key = checked[k].key /\ checked[k].key = checked[l].key
        /\ checked[j].allowed /\ checked[k].allowed /\ checked[l].allowed
        /\ checked[l].max = 2
        /\ checked[j].ts < checked[k].ts
        /\ checked[k].ts < checked[j].ts + checked[l].windowMs
        /\ checked[l].ts >= checked[j].ts + checked[l].windowMs
        /\ checked[l].ts < checked[k].ts + checked[l].windowMs
        /\ stores[checked[l].store][checked[l].key] = <<checked[k].ts, checked[l].ts>>
        /\ clock = checked[l].ts

\* the keys of the limiter's callers and of its store
LimiterKeys ==
    {resolveKey(rateLimiterCache[Standalone].keyFn, arg) : arg \in LimiterArgs}
        \cup DOMAIN stores[rateLimiterCache[Standalone].store]

\* C13: Limiter key independence. Every check or reset touches one key k1 of
\* the store: for every other key k2 the recorded sequence (or its absence) is
\* unchanged, and a check of k2 after the step has the result it would have had
\* without the step. By induction the outcome of every check on k2 is the same
\* as if no operation on k1 had ever happened.
KeyIndependence ==
    [][LET limiter == rateLimiterCache[Standalone]
           before == stores[limiter.store]
           after == stores'[limiter.store]
       IN  \E k1 \in LimiterKeys :
               \A k2 \in LimiterKeys \ {k1} :
                   /\ MapHas(after, k2) <=> MapHas(before, k2)
                   /\ MapHas(before, k2) => after[k2] = before[k2]
                   /\ StoreCheck(after, k2, limiter.maxRequests, limiter.windowMs,
                                 clock').result
                        = StoreCheck(before, k2, limiter.maxRequests, limiter.windowMs,
                                     clock').result
      ]_vars

\* one key was used up and denied, then reset, while the other key holds its
\* own admissions and was admitted after the first was denied
KeyIndependenceWitness ==
    \E j, k \in 1..Len(checked) :
        /\ j < k
        /\ checked[j].key # checked[k].key
        /\ ~checked[j].allowed
        /\ checked[k].allowed
        /\ ~MapHas(stores[checked[j].store], checked[j].key)
        /\ MapHas(stores[checked[k].store], checked[k].key)
        /\ stores[checked[k].store][checked[k].key] # <<>>

-----------------------------------------------------------------------------
(* csrf.ts: validateCsrf called directly. Specification of the validator: it *)
(* is called with the headers of CsrfHeaders and the configurations of       *)
(* CsrfConfigs.                                                              *)

CustomHeaderName == "x-csrf"
CustomCookieName == "c"

\* CsrfValidationConfig values: absent, empty, both names set, the cookie name set
CsrfConfigs ==
    {None,
     Some([cookieName |-> None, headerName |-> None]),
     Some([cookieName |-> Some(CustomCookieName), headerName |-> Some(CustomHeaderName)]),
     Some([cookieName |-> Some(CustomCookieName), headerName |-> None])}

\* the characters of the cookie names
CookieNameChars(name) ==
    IF name = CustomCookieName THEN <<"c">>
    ELSE <<"a", "c", "t", "i", "o", "n", "g", "u", "a", "r", "d", "-", "c", "s", "r", "f">>

\* values of the token header
TokenHeaderValues == {<<>>, <<" ">>, <<"t">>, <<"u">>, <<" ", "t", " ">>}

\* values of the cookie header that name the cookie n
CookieHeaderValues(n) ==
    {n \o <<"=", "t">>,
     n \o <<"=", "u">>,
     <<" ">> \o n \o <<" ", "=", " ", "t", " ">>,
     n \o <<"=">>,
     n,
     <<"x", "=", "1", ";">> \o n \o <<"=", "t">>,
     n \o <<"=", ";">> \o n \o <<"=", "t">>}

\* Headers objects: the token header absent or set under either name, the
\* cookie header absent, blank or naming either cookie
CsrfHeaders ==
    LET tokenPart == {EmptyHeaders}
            \cup {MapSet(EmptyHeaders, hn, hv) :
                     hn \in {DEFAULTS.headerName, CustomHeaderName},
                     hv \in TokenHeaderValues}
        cookieValues == {<<>>, <<" ">>}
            \cup UNION {CookieHeaderValues(CookieNameChars(cn)) :
                           cn \in {DEFAULTS.cookieName, CustomCookieName}}
    IN  tokenPart \cup {MapSet(h, "cookie", cv) : h \in tokenPart, cv \in cookieValues}

\* validateCsrf(headers, config)
CallValidateCsrf(headers, csrfConfig) ==
    /\ direct' = [fn |-> "validateCsrf", headers |-> headers, config |-> csrfConfig,
                  result |-> validateCsrf(headers, csrfConfig)]
    /\ UNCHANGED <<config, builders, actions, rateLimiterCache, stores, clock, inv,
                   ctxs, job, console, checked>>

InitCsrf ==
    /\ config = [auth |-> None, rateLimit |-> None, csrf |-> None]
    /\ builders = <<>>
    /\ actions = <<>>
    /\ rateLimiterCache = EmptyMap
    /\ stores = <<>>
    /\ clock = 0
    /\ inv = [i \in Slots |-> IdleInv]
    /\ ctxs = [i \in Slots |-> NoCtx]
    /\ job = 0
    /\ console = <<>>
    /\ checked = <<>>
    /\ direct = NoCall

NextCsrf == \E headers \in CsrfHeaders, csrfConfig \in CsrfConfigs :
                CallValidateCsrf(headers, csrfConfig)

SpecCsrf == InitCsrf /\ [][NextCsrf]_vars

\* a header value holds a character that is not a blank
NonBlank(headers, name) ==
    /\ HeaderPresent(headers, name)
    /\ \E k \in 1..Len(headers[name]) : ~IsSpace(headers[name][k])

\* C14: Double-submit validation. validateCsrf is valid if and only if the
\* header token and the cookie token are both present and equal, a header token
\* being present exactly when the configured header holds a non-blank value,
\* and tokens being compared trimmed. Otherwise it fails, in this order: no
\* header token (whether or not there is a cookie token), the error naming the
\* configured header; else no cookie token, the error naming the configured
\* cookie; else the tokens differ, the token-mismatch error.
DoubleSubmit ==
    direct.fn = "validateCsrf" =>
        LET h == getCsrfTokenFromHeaders(direct.headers, direct.config)
            c == getCsrfTokenFromCookie(direct.headers, direct.config)
            r == direct.result
        IN  /\ h # None <=> NonBlank(direct.headers, CsrfName(direct.config, "headerName"))
            /\ h # None => Get(h) = Trim(direct.headers[CsrfName(direct.config, "headerName")])
            /\ c # None => (Get(c) # <<>> /\ Get(c) = Trim(Get(c)))
            /\ r.valid <=> (h # None /\ c # None /\ h = c)
            /\ r.valid => r.error = None
            /\ h = None =>
                  r = [valid |-> FALSE,
                       error |-> Some(MissingHeaderMessage(
                                          CsrfName(direct.config, "headerName")))]
            /\ (h # None /\ c = None) =>
                  r = [valid |-> FALSE,
                       error |-> Some(MissingCookieMessage(
                                          CsrfName(direct.config, "cookieName")))]
            /\ (h # None /\ c # None /\ h # c) =>
                  r = [valid |-> FALSE, error |-> Some(MismatchMessage)]

\* a header token and a cookie token, both padded with blanks, matched under
\* configured names
DoubleSubmitWitness ==
    /\ direct.fn = "validateCsrf"
    /\ direct.result.valid
    /\ direct.config # None
    /\ CsrfName(direct.config, "headerName") = CustomHeaderName
    /\ direct.headers[CustomHeaderName] = <<" ", "t", " ">>
    /\ direct.headers["cookie"] = <<" ", "c", " ", "=", " ", "t", " ">>

-----------------------------------------------------------------------------
(* Properties of the csrf step *)

\* C15: CSRF with unwired headers. The context of every invocation carries an
\* empty header map, so an invocation whose csrf step has run has ended there:
\* the csrf step is the last step that ran, the result is CSRF_FAILED with the
\* missing-header message naming the configured header (the custom name when
\* the guard is configured with one), and the handler was never called, even
\* when every earlier step passed.
CsrfAlwaysFails ==
    \A i \in Slots :
        /\ Live(i) => Ctx(i).headers = EmptyHeaders
        /\ inv[i].status \notin {"idle", "gone"} =>
              \A k \in 1..Len(inv[i].trace) :
                  StepsOf(inv[i].action)[inv[i].trace[k]].type = "csrf" =>
                      /\ k = Len(inv[i].trace)
                      /\ inv[i].status = "done"
                      /\ inv[i].handlerCalls = 0
                      /\ inv[i].result =
                            Failure(MissingHeaderMessage(CsrfName(config.csrf, "headerName")),
                                    "CSRF_FAILED")

\* under a guard configured with the header name x-csrf, the pipeline
\* [auth, csrf] passed auth and resolved CSRF_FAILED naming x-csrf
CsrfAlwaysFailsWitness ==
    \E i \in Slots :
        /\ inv[i].status = "done"
        /\ config.csrf # None
        /\ Len(StepsOf(inv[i].action)) = 2
        /\ StepsOf(inv[i].action)[1].type = "auth"
        /\ StepsOf(inv[i].action)[2].type = "csrf"
        /\ inv[i].trace = <<1, 2>>
        /\ inv[i].handlerCalls = 0
        /\ inv[i].result = Failure("Missing CSRF token in header \"x-csrf\"", "CSRF_FAILED")

-----------------------------------------------------------------------------
(* auth/next-auth.ts (carried in auth/custom.ts from line 11) and           *)
(* auth/supabase.ts: local verification of a token.                         *)
(* A token is the sequence of its segments, token.split("."). A header or   *)
(* payload segment is its base64url text; the signature segment is the      *)
(* sequence of its characters, each character of the base64url alphabet     *)
(* being its index 0..63. HMAC-SHA-256 is a keyed function without          *)
(* collisions on the inputs of the model, two bytes wide: like the 32 bytes *)
(* of the real digest, two bytes leave 2 unused bits in the last character  *)
(* of their base64url text.                                                 *)

\* JSON values: an object with its fields, null, a number, or text that
\* JSON.parse rejects; field values are strings or numbers
Jstr(str) == [t |-> "string", s |-> str, n |-> 0]
Jnum(num) == [t |-> "number", s |-> "", n |-> num]
JsonObject(fields) == [kind |-> "object", fields |-> fields]
JsonNull == [kind |-> "null", fields |-> [none |-> Jnum(0)]]
JsonNumber == [kind |-> "number", fields |-> [none |-> Jnum(0)]]
JsonInvalid == [kind |-> "invalid", fields |-> [none |-> Jnum(0)]]

\* header segments: {"alg":"HS256"}, {"alg":"none"}, {}, null, 1, x
HeaderSegments ==
    <<"eyJhbGciOiJIUzI1NiJ9", "eyJhbGciOiJub25lIn0", "e30", "bnVsbA", "MQ", "eA">>

\* payload segments: {"sub":"user-a"}, with "exp":2, with "exp":0, with
\* "nbf":2, with "exp":"2", null, 1, x
PayloadSegments ==
    <<"eyJzdWIiOiJ1c2VyLWEifQ", "eyJzdWIiOiJ1c2VyLWEiLCJleHAiOjJ9",
      "eyJzdWIiOiJ1c2VyLWEiLCJleHAiOjB9", "eyJzdWIiOiJ1c2VyLWEiLCJuYmYiOjJ9",
      "eyJzdWIiOiJ1c2VyLWEiLCJleHAiOiIyIn0", "bnVsbA", "MQ", "eA">>

\* JSON.parse(base64UrlDecode(segment)) on the segments of the model
ParseSegment(segment) ==
    CASE segment = "eyJhbGciOiJIUzI1NiJ9" -> JsonObject([alg |-> Jstr("HS256")])
      [] segment = "eyJhbGciOiJub25lIn0" -> JsonObject([alg |-> Jstr("none")])
      [] segment = "e30" -> JsonObject([none |-> Jnum(0)])
      [] segment = "bnVsbA" -> JsonNull
      [] segment = "MQ" -> JsonNumber
      [] segment = "eyJzdWIiOiJ1c2VyLWEifQ" -> JsonObject([sub |-> Jstr("user-a")])
      [] segment = "eyJzdWIiOiJ1c2VyLWEiLCJleHAiOjJ9" ->
            JsonObject([sub |-> Jstr("user-a"), exp |-> Jnum(2)])
      [] segment = "eyJzdWIiOiJ1c2VyLWEiLCJleHAiOjB9" ->
            JsonObject([sub |-> Jstr("user-a"), exp |-> Jnum(0)])
      [] segment = "eyJzdWIiOiJ1c2VyLWEiLCJuYmYiOjJ9" ->
            JsonObject([sub |-> Jstr("user-a"), nbf |-> Jnum(2)])
      [] segment = "eyJzdWIiOiJ1c2VyLWEiLCJleHAiOiIyIn0" ->
            JsonObject([sub |-> Jstr("user-a"), exp |-> Jstr("2")])
      [] OTHER -> JsonInvalid

\* value.name: a TypeError on null, undefined (None) on a missing field or a
\* value that is not an object
PropertyOf(json, name) ==
    IF json.kind = "null" THEN [threw |-> TRUE, value |-> None]
    ELSE IF json.kind = "object" /\ name \in DOMAIN json.fields /\ name # "none"
    THEN [threw |-> FALSE, value |-> Some(json.fields[name])]
    ELSE [threw |-> FALSE, value |-> None]

\* typeof v === "number"
IsNumber(v) == v # None /\ Get(v).t = "number"
\* v used as a condition
Truthy(v) ==
    v # None /\ (IF Get(v).t = "number" THEN Get(v).n # 0 ELSE Get(v).s # "")

Secrets == {"S1", "S2"}

\* position of a segment in a list of segments, 0 when absent
RECURSIVE PositionIn(_, _)
PositionIn(segments, segment) ==
    IF segments = <<>> THEN 0
    ELSE IF segments[Len(segments)] = segment THEN Len(segments)
    ELSE PositionIn(SubSeq(segments, 1, Len(segments) - 1), segment)

\* createHmac("sha256", secret).update(`${headerB64}.${payloadB64}`).digest()
Hmac(secret, headerB64, payloadB64) ==
    <<IF secret = "S1" THEN 53 ELSE 202,
      PositionIn(HeaderSegments, headerB64) * 16 + PositionIn(PayloadSegments, payloadB64)>>

RECURSIVE SextetsValue(_)
\* the number written by a sequence of base64 characters, 6 bits each
SextetsValue(chars) ==
    IF chars = <<>> THEN 0
    ELSE SextetsValue(SubSeq(chars, 1, Len(chars) - 1)) * 64 + chars[Len(chars)]

\* the bytes of a base64 text: whole bytes only, the bits left over in the last
\* character are dropped whatever they are
BufferFromBase64(chars) ==
    LET bits == Len(chars) * 6
        size == bits \div 8
        value == SextetsValue(chars) \div (2 ^ (bits % 8))
    IN  [i \in 1..size |-> (value \div (256 ^ (size - i))) % 256]

\* auth/next-auth.ts: Buffer.from(base64UrlToBase64(input), "base64"); the two
\* alphabets name the same 64 values and the padding adds no bits
base64UrlDecodeToBuffer(input) == BufferFromBase64(input)

\* auth/supabase.ts: the same decoding, padding computed in one step
base64UrlDecode(input) == BufferFromBase64(input)

RECURSIVE BytesValue(_)
BytesValue(bytes) ==
    IF bytes = <<>> THEN 0
    ELSE BytesValue(SubSeq(bytes, 1, Len(bytes) - 1)) * 256 + bytes[Len(bytes)]

\* digest("base64url"): the characters of the bytes, the last one filled with
\* zero bits, no padding
DigestBase64Url(bytes) ==
    LET bits == Len(bytes) * 8
        size == (bits + 5) \div 6
        value == BytesValue(bytes) * (2 ^ (size * 6 - bits))
    IN  [i \in 1..size |-> (value \div (64 ^ (size - i))) % 64]

\* the signature segment a signer holding the secret writes
createTestJwt(headerB64, payloadB64, secret) ==
    <<headerB64, payloadB64, DigestBase64Url(Hmac(secret, headerB64, payloadB64))>>

\* what a verification does: returns null, returns a user, or throws; compared
\* tells whether timingSafeEqual was reached
JwtNull(compared) == [outcome |-> "null", id |-> "", compared |-> compared]
JwtUser(id) == [outcome |-> "user", id |-> id, compared |-> TRUE]
JwtThrew(compared) == [outcome |-> "threw", id |-> "", compared |-> compared]

\* a lax test of the algorithm: everything but "none" passes
AlgIsNotNone(alg) == alg # Some(Jstr("none"))

\* header.alg !== "HS256", negated
AlgIsHS256(alg) == alg = Some(Jstr("HS256"))

\* payload.sub when truthy, else payload.id when truthy, as a string
mapPayloadToUser(payload) ==
    LET sub == PropertyOf(payload, "sub").value
        id == PropertyOf(payload, "id").value
    IN  IF Truthy(sub) THEN JwtUser(Get(sub).s)
        ELSE IF Truthy(id) THEN JwtUser(Get(id).s)
        ELSE JwtUser("")

\* the body of the try block of verifyJwt, now being Date.now()
verifyJwtTry(token, secret, now) ==
    IF Len(token) # 3 THEN JwtNull(FALSE)
    ELSE
    LET headerB64 == token[1]
        payloadB64 == token[2]
        signatureB64 == token[3]
        header == ParseSegment(headerB64)
        alg == PropertyOf(header, "alg")
        expectedSignature == Hmac(secret, headerB64, payloadB64)
        actualSignature == base64UrlDecodeToBuffer(signatureB64)
        payload == ParseSegment(payloadB64)
        exp == PropertyOf(payload, "exp")
        nbf == PropertyOf(payload, "nbf")
        seconds == now \div 1000
    IN  IF header.kind = "invalid" THEN JwtThrew(FALSE)
        ELSE IF alg.threw THEN JwtThrew(FALSE)
        ELSE IF ~AlgIsHS256(alg.value) THEN JwtNull(FALSE)
        ELSE IF Len(expectedSignature) # Len(actualSignature) THEN JwtNull(FALSE)
        ELSE IF expectedSignature # actualSignature THEN JwtNull(TRUE)
        ELSE IF payload.kind = "invalid" THEN JwtThrew(TRUE)
        ELSE IF exp.threw THEN JwtThrew(TRUE)
        ELSE IF Truthy(exp.value) /\ IsNumber(exp.value) /\ seconds >= Get(exp.value).n
             THEN JwtNull(TRUE)
        ELSE IF Truthy(nbf.value) /\ IsNumber(nbf.value) /\ seconds < Get(nbf.value).n
             THEN JwtNull(TRUE)
        ELSE mapPayloadToUser(payload)

\* auth/next-auth.ts verifyJwt: whatever the try block throws is caught and
\* null is returned
verifyJwt(token, secret, now) ==
    LET tried == verifyJwtTry(token, secret, now)
    IN  IF tried.outcome = "threw" THEN JwtNull(tried.compared) ELSE tried

\* auth/supabase.ts verifyJwtLocally: only the two JSON.parse calls are inside
\* a try
verifyJwtLocally(token, secret, now) ==
    IF Len(token) # 3 THEN JwtNull(FALSE)
    ELSE
    LET headerB64 == token[1]
        payloadB64 == token[2]
        signatureB64 == token[3]
        header == ParseSegment(headerB64)
        alg == PropertyOf(header, "alg")
        expectedSignature == Hmac(secret, headerB64, payloadB64)
        actualSignature == base64UrlDecode(signatureB64)
        payload == ParseSegment(payloadB64)
        exp == PropertyOf(payload, "exp")
        sub == PropertyOf(payload, "sub").value
        nowInSeconds == now \div 1000
    IN  IF header.kind = "invalid" THEN JwtNull(FALSE)
        ELSE IF alg.threw THEN JwtThrew(FALSE)
        ELSE IF ~AlgIsHS256(alg.value) THEN JwtNull(FALSE)
        ELSE IF Len(expectedSignature) # Len(actualSignature) THEN JwtNull(FALSE)
        ELSE IF expectedSignature # actualSignature THEN JwtNull(TRUE)
        ELSE IF payload.kind = "invalid" THEN JwtNull(TRUE)
        ELSE IF exp.threw THEN JwtThrew(TRUE)
        ELSE IF IsNumber(exp.value) /\ nowInSeconds >= Get(exp.value).n
             THEN JwtNull(TRUE)
        ELSE JwtUser(IF sub = None THEN "" ELSE Get(sub).s)

\* the characters of the base64url alphabet a character is altered to: the
\* next one, and the one four further
Alterations == {1, 4}

\* a signature with the character at one position altered
AlterAt(signature, k, d) == [signature EXCEPT ![k] = (@ + d) % 64]

\* signature segments: the one each secret writes, those with one character
\* altered, one cut short, and the empty one
SignatureSegments(headerB64, payloadB64) ==
    LET signed == {createTestJwt(headerB64, payloadB64, secret)[3] : secret \in Secrets}
    IN  signed
        \cup {AlterAt(sig, k, d) : sig \in signed, k \in 1..3, d \in Alterations}
        \cup {SubSeq(sig, 1, 2) : sig \in signed}
        \cup {<<>>}

\* tokens: three segments, and tokens of two and of four segments
Tokens ==
    LET h == {HeaderSegments[k] : k \in 1..Len(HeaderSegments)}
        p == {PayloadSegments[k] : k \in 1..Len(PayloadSegments)}
    IN  UNION {{<<a, b, sig>> : sig \in SignatureSegments(a, b)} : a \in h, b \in p}
        \cup {SubSeq(createTestJwt(a, b, "S1"), 1, 2) : a \in h, b \in p}
        \cup {createTestJwt(a, b, "S1") \o <<<<0>>>> : a \in h, b \in p}

IsVerification == direct.fn \in {"verifyJwt", "verifyJwtLocally"}

CallVerifyJwt ==
    /\ "token" \in DOMAIN direct
    /\ direct' = [fn |-> "verifyJwt", token |-> direct.token, secret |-> direct.secret,
                  now |-> clock, result |-> verifyJwt(direct.token, direct.secret, clock)]
    /\ UNCHANGED <<config, builders, actions, rateLimiterCache, stores, clock, inv,
                   ctxs, job, console, checked>>

CallVerifyJwtLocally ==
    /\ "token" \in DOMAIN direct
    /\ direct' = [fn |-> "verifyJwtLocally", token |-> direct.token,
                  secret |-> direct.secret, now |-> clock,
                  result |-> verifyJwtLocally(direct.token, direct.secret, clock)]
    /\ UNCHANGED <<config, builders, actions, rateLimiterCache, stores, clock, inv,
                   ctxs, job, console, checked>>

\* a token and a secret are at hand, nothing has been verified yet
InitJwt ==
    /\ config = [auth |-> None, rateLimit |-> None, csrf |-> None]
    /\ builders = <<>>
    /\ actions = <<>>
    /\ rateLimiterCache = EmptyMap
    /\ stores = <<>>
    /\ clock = 0
    /\ inv = [i \in Slots |-> IdleInv]
    /\ ctxs = [i \in Slots |-> NoCtx]
    /\ job = 0
    /\ console = <<>>
    /\ checked = <<>>
    /\ \E token \in Tokens, secret \in Secrets :
         direct = [fn |-> "none", token |-> token, secret |-> secret]

NextJwt ==
    \/ CallVerifyJwt
    \/ CallVerifyJwtLocally
    \/ LimiterTick

SpecJwt == InitJwt /\ [][NextJwt]_vars

\* the verified token is well formed, header and payload being JSON objects
\* and the header naming HS256
Signed(secret) ==
    /\ Len(direct.token) = 3
    /\ direct.token[1] = HeaderSegments[1]
    /\ ParseSegment(direct.token[2]).kind = "object"
    /\ direct.token = createTestJwt(direct.token[1], direct.token[2], secret)

\* C16: Local verification never throws. verifyJwt and verifyJwtLocally return
\* null, and raise no exception, whenever a structural check fails (other than
\* three segments, a header or payload that does not decode to a JSON object,
\* null included, a signature of another byte length) or the signature
\* comparison fails.
VerifyNeverThrows ==
    IsVerification =>
      LET token == direct.token
          structural ==
            \/ Len(token) # 3
            \/ ParseSegment(token[1]).kind # "object"
            \/ ParseSegment(token[2]).kind # "object"
            \/ Len(base64UrlDecode(token[3])) # Len(Hmac(direct.secret, token[1], token[2]))
          differs ==
            base64UrlDecode(token[3]) # Hmac(direct.secret, token[1], token[2])
      IN  (structural \/ differs) => direct.result.outcome = "null"

SignatureBinding ==
    (IsVerification /\ direct.result.outcome = "user") =>
      direct.token = createTestJwt(direct.token[1], direct.token[2], direct.secret)

\* the claim of the verified token's payload, None when it has none
Claim(name) == PropertyOf(ParseSegment(direct.token[2]), name).value

\* C19: Expiry. For a token with a valid signature whose payload has a numeric
\* exp, local verification returns null whenever the current time in whole
\* seconds is at or past exp, for every numeric exp, 0 included; a token
\* without exp (and not held back by nbf) is accepted whatever the time.
ExpiryEnforced ==
    (IsVerification /\ Signed(direct.secret)) =>
      /\ (IsNumber(Claim("exp")) /\ direct.now \div 1000 >= Get(Claim("exp")).n)
            => direct.result.outcome = "null"
      /\ (Claim("exp") = None /\ Claim("nbf") = None)
            => direct.result.outcome = "user"

\* C20: Not-before. For a token with a valid signature whose payload has a
\* numeric nbf, local verification, in the nextAuth and in the supabaseAuth
\* provider alike, returns null whenever the current time in whole seconds is
\* before nbf.
NotBeforeEnforced ==
    (IsVerification /\ Signed(direct.secret)) =>
      ((IsNumber(Claim("nbf")) /\ direct.now \div 1000 < Get(Claim("nbf")).n)
            => direct.result.outcome = "null")

-----------------------------------------------------------------------------
(* Properties of the rateLimit step's bucket *)

\* the k-th check is of a pipeline step declared without an identifier
Unidentified(k) ==
    /\ checked[k].cfg \in RlConfigIds
    /\ RlConfig(checked[k].cfg).identifier = None

\* the last check an invocation made, 0 when it made none
LastCheckOf(i) ==
    LET mine == {k \in 1..Len(checked) : checked[k].slot = i}
    IN  IF mine = {} THEN 0 ELSE CHOOSE k \in mine : \A l \in mine : l <= k

\* C26: Shared bucket without identifier. The checks of a rateLimit step that
\* has no identifier function all land in one bucket whatever user was
\* resolved: a check is admitted exactly when fewer than maxRequests earlier
\* checks of the step were admitted within the window, by whichever caller, and
\* a denied invocation resolves to RATE_LIMITED.
SharedBucket ==
    /\ \A k \in 1..Len(checked) :
           Unidentified(k) =>
               LET e == checked[k]
               IN  /\ e.key = "global"
                   /\ e.allowed <=>
                        Cardinality({j \in 1..(k - 1) :
                                        /\ checked[j].cfg = e.cfg
                                        /\ checked[j].allowed
                                        /\ checked[j].ts > e.ts - e.windowMs}) < e.max
    /\ \A i \in Slots :
           (HasResult(i) /\ LastCheckOf(i) # 0) =>
               ((Unidentified(LastCheckOf(i)) /\ ~checked[LastCheckOf(i)].allowed)
                   => inv[i].result = Failure("Rate limit exceeded", "RATE_LIMITED"))

\* the step admitted user-a, and within the window denied user-b, whose call
\* resolved to RATE_LIMITED
SharedBucketWitness ==
    \E j, k \in 1..Len(checked) :
        /\ j < k
        /\ Unidentified(j) /\ checked[j].cfg = checked[k].cfg
        /\ checked[j].resolved = "user:user-a" /\ checked[k].resolved = "user:user-b"
        /\ checked[j].allowed /\ ~checked[k].allowed
        /\ checked[k].ts < checked[j].ts + checked[j].windowMs
        /\ inv[checked[k].slot].status = "done"
        /\ inv[checked[k].slot].result = Failure("Rate limit exceeded", "RATE_LIMITED")

\* which of its pipeline's rateLimit steps made the k-th check: the first, the
\* second, ... (an invocation checks each of them at most once, in order)
RateLimitStepOf(k) ==
    Cardinality({j \in 1..k : checked[j].slot = checked[k].slot})

\* C27: Repeated step kinds. Two rateLimit steps of one pipeline enforce two
\* independent budgets: a step's check is admitted exactly when fewer than its
\* maxRequests earlier checks of that same step were admitted within its
\* window, so that consuming the budget of one step never consumes the other's.
IndependentBudgets ==
    \A k \in 1..Len(checked) :
        Unidentified(k) =>
            LET e == checked[k]
            IN  e.allowed <=>
                  Cardinality({j \in 1..(k - 1) :
                                  /\ RateLimitStepOf(j) = RateLimitStepOf(k)
                                  /\ checked[j].allowed
                                  /\ checked[j].ts > e.ts - e.windowMs}) < e.max

-----------------------------------------------------------------------------
(* Specification of the executor on inputs that the steps transform: strings, *)
(* undefined and objects, through pipelines with either schema.               *)

ThreadedInputs == Inputs \cup {Obj(<<" ", "<", "s", ">">>)}

ThreadedSteps ==
    {Step("auth", NoConfig), Step("csrf", NoConfig), Step("sanitize", NoConfig),
     Step("schema", "string"), Step("schema", NameSchema),
     Step("rateLimit", "R1"), Step("audit", "A1")}

ThreadedPipelines ==
    {p \in UNION {[1..n -> ThreadedSteps] : n \in 0..MaxSteps} :
        p # <<>> => p[1].type # "sanitize"}

InitThreaded == InitWith(ThreadedPipelines, Configs)

NextThreaded ==
    \/ \E i \in Slots, raw \in ThreadedInputs : AwaitedInvoke(i, 1, raw)
    \/ \E i \in Slots : AuthCall(i)
    \/ \E i \in Slots : AuthResume(i)
    \/ \E i \in Slots : SchemaStep(i)
    \/ \E i \in Slots : RateLimitCall(i)
    \/ \E i \in Slots : RateLimitResume(i)
    \/ \E i \in Slots : AuditStep(i)
    \/ \E i \in Slots : CsrfStep(i)
    \/ \E i \in Slots : SanitizeStep(i)
    \/ \E i \in Slots : HandlerCall(i)
    \/ \E i \in Slots : HandlerReturn(i)
    \/ \E i \in Slots : Settle(i)
    \/ Tick

SpecThreaded == InitThreaded /\ [][NextThreaded]_vars

\* the success results of schema(NameSchema).sanitize() over the inputs
NameResults ==
    {Success(sanitizeInput(safeParse(NameSchema, raw).data)) :
        raw \in {r \in ThreadedInputs : safeParse(NameSchema, r).success}}

\* C30: Input threading. The handler receives the raw argument with the
\* input-transforming steps applied in declared order: a schema step replaces
\* the input with the validated value, or fails with VALIDATION_ERROR before
\* any later step runs; a sanitize step replaces it with the escaped copy;
\* auth, rateLimit, csrf and audit leave it alone. schema({name}).sanitize()
\* on { name: "<s>" } succeeds with the name escaped.
InputThreading ==
    \A i \in Slots :
        LET steps == StepsOf(inv[i].action)
        IN  /\ Live(i) => Ctx(i).input = InputAfter(inv[i].raw, steps, inv[i].pc - 1)
            /\ inv[i].status = "awaitHandler" =>
                   inv[i].seen.input = InputAfter(inv[i].raw, steps, Len(steps))
            /\ (HasResult(i) /\ inv[i].result = Failure("Validation failed", "VALIDATION_ERROR"))
                   => /\ inv[i].trace # <<>>
                      /\ inv[i].trace = UpTo(Len(inv[i].trace))
                      /\ steps[Len(inv[i].trace)].type = "schema"
                      /\ inv[i].handlerCalls = 0
            /\ (HasResult(i) /\ inv[i].result.success
                  /\ steps = <<Step("schema", NameSchema), Step("sanitize", NoConfig)>>)
                   => inv[i].result \in NameResults

\* schema({name}).sanitize() was called with { name: " <s>" } and succeeded
\* with the name trimmed by the schema and then escaped
InputThreadingWitness ==
    \E i \in Slots :
        /\ inv[i].status = "done"
        /\ StepsOf(inv[i].action) = <<Step("schema", NameSchema), Step("sanitize", NoConfig)>>
        /\ inv[i].result =
             Success(Obj(<<"&", "l", "t", ";", "s", "&", "g", "t", ";">>))

-----------------------------------------------------------------------------
(* Specification of parseWindow called on a window string *)

WindowChars == {"0", "1", "2", " ", "s", "M", "h", "d", "x", "-"}

\* "abc", "100", "-1m", "30s"
WindowExamples ==
    {<<"a", "b", "c">>, <<"1", "0", "0">>, <<"-", "1", "m">>, <<"3", "0", "s">>}

\* strings of at most two digits: the milliseconds of up to 22 days stay below
\* 2^31, within which the numbers of the model are exact as the code's are
Windows ==
    {w \in UNION {[1..n -> WindowChars] : n \in 0..MaxWindowLen} :
        Cardinality({k \in 1..Len(w) : w[k] \in Digits}) <= 2}
        \cup WindowExamples

CallParseWindow ==
    /\ "window" \in DOMAIN direct
    /\ direct' = [fn |-> "parseWindow", window |-> direct.window,
                  result |-> parseWindow(direct.window)]
    /\ UNCHANGED <<config, builders, actions, rateLimiterCache, stores, clock, inv,
                   ctxs, job, console, checked>>

InitWindow ==
    /\ config = [auth |-> None, rateLimit |-> None, csrf |-> None]
    /\ builders = <<>>
    /\ actions = <<>>
    /\ rateLimiterCache = EmptyMap
    /\ stores = <<>>
    /\ clock = 0
    /\ inv = [i \in Slots |-> IdleInv]
    /\ ctxs = [i \in Slots |-> NoCtx]
    /\ job = 0
    /\ console = <<>>
    /\ checked = <<>>
    /\ \E window \in Windows : direct = [fn |-> "none", window |-> window]

NextWindow == CallParseWindow

SpecWindow == InitWindow /\ [][NextWindow]_vars

\* w is blanks, digits from a to b, blanks, a unit letter at c, blanks
WindowShape(w, a, b, c) ==
    /\ a <= b /\ b < c
    /\ \A k \in 1..(a - 1) : IsSpace(w[k])
    /\ \A k \in a..b : w[k] \in Digits
    /\ \A k \in (b + 1)..(c - 1) : IsSpace(w[k])
    /\ w[c] \in {"s", "m", "h", "d", "S", "M", "H", "D"}
    /\ \A k \in (c + 1)..Len(w) : IsSpace(w[k])

\* the milliseconds of one unit
UnitMilliseconds(u) ==
    CASE u \in {"s", "S"} -> 1000
      [] u \in {"m", "M"} -> 60000
      [] u \in {"h", "H"} -> 3600000
      [] u \in {"d", "D"} -> 86400000

\* C29: Window parsing. parseWindow accepts exactly the strings made of digits,
\* optional blanks and a unit s, m, h or d in either case, blanks around them
\* ignored, whose value is greater than 0, and returns the value times 1000,
\* 60000, 3600000 or 86400000: "30s" gives 30000. Every other string, "0s",
\* "-1m", "abc", "1x", "" and "100" among them, raises an error.
WindowParsing ==
    direct.fn = "parseWindow" =>
      LET w == direct.window
          r == direct.result
          positions == 1..Len(w)
      IN  /\ ~r.threw <=>
                \E a, b, c \in positions :
                    /\ WindowShape(w, a, b, c)
                    /\ ParseInt(SubSeq(w, a, b)) > 0
          /\ \A a, b, c \in positions :
                 (~r.threw /\ WindowShape(w, a, b, c)) =>
                     r.ms = ParseInt(SubSeq(w, a, b)) * UnitMilliseconds(w[c])
          /\ w = <<"3", "0", "s">> => r.ms = 30000
          /\ w \in {<<"0", "s">>, <<"-", "1", "m">>, <<"a", "b", "c">>, <<"1", "x">>,
                    <<>>, <<"1", "0", "0">>} => r.threw

\* "2 M " was parsed to 120000 milliseconds
WindowParsingWitness ==
    /\ direct.fn = "parseWindow"
    /\ direct.window = <<"2", " ", "M", " ">>
    /\ ~direct.result.threw
    /\ direct.result.ms = 120000

-----------------------------------------------------------------------------
(* Specification of the key of a rateLimit step: the executor on pipelines   *)
(* with a rateLimit step, and resolveRateLimitKey called on a context with   *)
(* headers.                                                                  *)

KeyPipelines ==
    {<<Step("rateLimit", c)>> : c \in {"R1", "R2"}}
        \cup {<<Step("auth", NoConfig), Step("rateLimit", c)>> : c \in {"R1", "R2"}}

\* values of x-forwarded-for: "", "1,2", "1 , 2", ",2"; of x-real-ip: "", "7"
ForwardedValues ==
    {<<>>, <<"1", ",", "2">>, <<"1", " ", ",", " ", "2">>, <<",", "2">>}
RealIpValues == {<<>>, <<"7">>}

\* Headers objects with or without either header
KeyHeaders ==
    {EmptyHeaders}
        \cup {[h \in {"x-forwarded-for"} |-> f] : f \in ForwardedValues}
        \cup {[h \in {"x-real-ip"} |-> r] : r \in RealIpValues}
        \cup {[h \in {"x-forwarded-for", "x-real-ip"} |->
                  IF h = "x-real-ip" THEN r ELSE f] : f \in ForwardedValues, r \in RealIpValues}

KeyContexts ==
    {[user |-> u, input |-> Undef, headers |-> h, metadata |-> EmptyMap] :
        u \in Users \cup {NULL}, h \in KeyHeaders}

CallResolveRateLimitKey(ctx, id) ==
    /\ direct = NoCall
    /\ direct' = [fn |-> "resolveRateLimitKey", ctx |-> ctx, cfg |-> id,
                  result |-> resolveRateLimitKey(ctx, RlConfig(id))]
    /\ UNCHANGED <<config, builders, actions, rateLimiterCache, stores, clock, inv,
                   ctxs, job, console, checked>>

InitKey == InitWith(KeyPipelines, Configs)

NextKey ==
    \/ \E ctx \in KeyContexts, id \in {"R1", "R2"} : CallResolveRateLimitKey(ctx, id)
    \/ \E i \in Slots, raw \in Inputs : AwaitedInvoke(i, 1, raw)
    \/ \E i \in Slots : AuthCall(i)
    \/ \E i \in Slots : AuthResume(i)
    \/ \E i \in Slots : RateLimitCall(i)
    \/ \E i \in Slots : RateLimitResume(i)
    \/ \E i \in Slots : HandlerCall(i)
    \/ \E i \in Slots : HandlerReturn(i)
    \/ \E i \in Slots : Settle(i)
    \/ Tick

SpecKey == InitKey /\ [][NextKey]_vars

\* the characters before the first comma
RECURSIVE BeforeComma(_)
BeforeComma(cs) ==
    IF cs = <<>> \/ cs[1] = "," THEN <<>> ELSE <<cs[1]>> \o BeforeComma(Tail(cs))

\* the value of a header, empty when the header is absent
HeaderValue(headers, name) == IF name \in DOMAIN headers THEN headers[name] ELSE <<>>

\* the key the priority order gives a context without an identifier function
KeyByPriority(ctx) ==
    IF ctx.user # NULL THEN "user:" \o ctx.user
    ELSE IF HeaderValue(ctx.headers, "x-forwarded-for") # <<>>
    THEN "ip:" \o Join(Trim(BeforeComma(HeaderValue(ctx.headers, "x-forwarded-for"))))
    ELSE IF HeaderValue(ctx.headers, "x-real-ip") # <<>>
    THEN "ip:" \o Join(HeaderValue(ctx.headers, "x-real-ip"))
    ELSE "anonymous"

\* C25: Rate-limit key priority. The key of a rateLimit step is the step's
\* identifier function applied to the context when there is one, else "user:"
\* and the context's user when there is a user, else "ip:" and the left-most
\* comma-separated value of x-forwarded-for, else "ip:" and the value of
\* x-real-ip, else "anonymous"; and the key is resolved before the limiter is
\* checked: the check an invocation is suspended on was made for the key of its
\* context, and an identifier that throws leaves the limiter unchecked.
KeyPriority ==
    /\ direct.fn = "resolveRateLimitKey" =>
         IF RlConfig(direct.cfg).identifier # None
         THEN direct.result = identifierApply(Get(RlConfig(direct.cfg).identifier), direct.ctx)
         ELSE /\ ~direct.result.threw
              /\ direct.result.key = KeyByPriority(direct.ctx)
    /\ \A i \in Slots :
         /\ inv[i].status = "awaitLimiter" =>
              /\ LastCheckOf(i) # 0
              /\ checked[LastCheckOf(i)].resolved =
                   IF RlConfig(checked[LastCheckOf(i)].cfg).identifier # None
                   THEN "custom:" \o Ctx(i).user
                   ELSE KeyByPriority(Ctx(i))
         /\ (HasResult(i) /\ inv[i].thrown = Some(identifierApply("byUserId", FreshCtx(Undef)).error))
                => LastCheckOf(i) = 0

\* a context without user carrying both headers was given the key of the
\* left-most forwarded address, and an invocation of user-a is suspended on the
\* check made for its key
KeyPriorityWitness ==
    /\ direct.fn = "resolveRateLimitKey"
    /\ direct.ctx.user = NULL
    /\ direct.ctx.headers = [h \in {"x-forwarded-for", "x-real-ip"} |->
                                IF h = "x-real-ip" THEN <<"7">>
                                ELSE <<"1", " ", ",", " ", "2">>]
    /\ direct.result.key = "ip:1"
    /\ \E i \in Slots :
         /\ inv[i].status = "awaitLimiter"
         /\ checked[LastCheckOf(i)].resolved = "user:user-a"

-----------------------------------------------------------------------------
(* Specification of two guard instances: createActionGuard() is called      *)
(* twice, each call has its own rateLimiterCache, and an action is compiled *)
(* from a pipeline of each guard. Here rateLimiterCache holds the caches of *)
(* the guards, in the order of their creation.                              *)

Guards == {1, 2}

GuardPipelines ==
    {<<Step("rateLimit", "R1")>>, <<Step("audit", "A1"), Step("rateLimit", "R1")>>}

\* the guard in whose closure an action was compiled
\* (GuardOfFirst: a cache hoisted to the module, shared by every guard)
GuardOfFirst(a) == 1
GuardOf(a) == actions[a].guard

GuardRateLimitCall(i) == RateLimitCase(i, GuardOf(inv[i].action))

InitGuards ==
    /\ config = [auth |-> None, rateLimit |-> None, csrf |-> None]
    /\ \E p, q \in GuardPipelines : builders = <<p, q>>
    /\ actions = <<[builder |-> 1, guard |-> 1], [builder |-> 2, guard |-> 2]>>
    /\ rateLimiterCache = [g \in Guards |-> EmptyMap]
    /\ stores = <<>>
    /\ clock = 0
    /\ inv = [i \in Slots |-> IdleInv]
    /\ ctxs = [i \in Slots |-> NoCtx]
    /\ job = 0
    /\ console = <<>>
    /\ checked = <<>>
    /\ direct = NoCall

NextGuards ==
    \/ \E i \in Slots, a \in Guards, raw \in Inputs : AwaitedInvoke(i, a, raw)
    \/ \E i \in Slots : GuardRateLimitCall(i)
    \/ \E i \in Slots : RateLimitResume(i)
    \/ \E i \in Slots : AuditStep(i)
    \/ \E i \in Slots : HandlerCall(i)
    \/ \E i \in Slots : HandlerReturn(i)
    \/ \E i \in Slots : Settle(i)
    \/ Tick

SpecGuards == InitGuards /\ [][NextGuards]_vars

\* the stores the limiters of a guard's cache check
StoresOf(g) == {rateLimiterCache[g][id].store : id \in DOMAIN rateLimiterCache[g]}

\* C28: Guard instance isolation. With the default in-memory store, two guards
\* made by separate createActionGuard calls share no rate-limit state: their
\* limiters check different stores, an invocation's check is made on a store of
\* its own guard and decided by the admissions in that store alone, so that an
\* action returns RATE_LIMITED only when its own guard's budget is used up.
GuardIsolation ==
    /\ \A g, h \in Guards : g # h => StoresOf(g) \cap StoresOf(h) = {}
    /\ \A k \in 1..Len(checked) :
         checked[k].allowed <=>
             Cardinality({j \in 1..(k - 1) : /\ checked[j].store = checked[k].store
                                             /\ checked[j].allowed
                                             /\ checked[j].ts > checked[k].ts
                                                                  - checked[k].windowMs})
                 < checked[k].max
    /\ \A i \in Slots :
         (inv[i].status \in {"awaitLimiter", "done"} /\ LastCheckOf(i) # 0) =>
             LET e == checked[LastCheckOf(i)]
                 g == actions[inv[i].action].guard
             IN  /\ e.store \in StoresOf(g)
                 /\ (HasResult(i) /\ inv[i].result.success = FALSE
                       /\ inv[i].result.code = "RATE_LIMITED")
                      => Cardinality({j \in 1..(LastCheckOf(i) - 1) :
                                         /\ checked[j].store \in StoresOf(g)
                                         /\ checked[j].allowed
                                         /\ checked[j].ts > e.ts - e.windowMs}) >= e.max

\* the action of the first guard used up its budget, and within the window the
\* action of the second guard, declared with the same configuration object, was
\* admitted
GuardIsolationWitness ==
    \E j, k \in 1..Len(checked) : \E i \in Slots :
        /\ j < k
        /\ checked[j].allowed /\ checked[j].max = 1
        /\ checked[j].store \in StoresOf(1)
        /\ checked[k].cfg = checked[j].cfg
        /\ checked[k].ts < checked[j].ts + checked[j].windowMs
        /\ checked[k].slot = i
        /\ inv[i].status = "done"
        /\ actions[inv[i].action].guard = 2
        /\ inv[i].result.success

-----------------------------------------------------------------------------
(* auth/next-auth.ts and auth/supabase.ts: the providers. A cookie header is *)
(* the sequence of its name=value pairs, an authorization header its scheme  *)
(* and what follows it; a value is a token, the empty token <<>> standing    *)
(* for the empty string. What the network answers a lookup is the            *)
(* environment's choice.                                                     *)

SessionCookie == "next-auth.session-token"
OtherCookie == "theme"

\* a truthy optional string
Configured(opt) == opt # None /\ Get(opt) # ""

\* parseCookieValue(cookieHeader, name): the first cookie of that name, null
\* when there is none or its value is empty
RECURSIVE parseCookieValue(_, _)
parseCookieValue(cookies, name) ==
    IF cookies = <<>> THEN None
    ELSE IF cookies[1].name = name
    THEN (IF cookies[1].value = <<>> THEN None ELSE Some(cookies[1].value))
    ELSE parseCookieValue(Tail(cookies), name)

\* extractSessionToken(headers, config), the cookie name being the default one
extractSessionToken(headers) ==
    IF ~MapHas(headers, "cookie") \/ headers["cookie"] = <<>> THEN None
    ELSE parseCookieValue(headers["cookie"], SessionCookie)

\* extractBearerToken(headers): /^Bearer\s+(.+)$/i on the authorization header
extractBearerToken(headers) ==
    IF ~MapHas(headers, "authorization") THEN None
    ELSE IF headers["authorization"].scheme = "Bearer"
            /\ headers["authorization"].token # <<>>
    THEN Some(headers["authorization"].token)
    ELSE None

\* what a lookup over the network may meet: fetch rejects, a response that is
\* not ok, a body that is not JSON, and bodies null, {}, { user: "x" } or
\* { id: 1 }, and one carrying the user of the endpoint
NetworkOutcomes ==
    {"transportError", "notOk", "notJson", "null", "empty", "unusable", "user"}

\* what resolve does: returns null or a user, or rejects; fetched tells whether
\* a request was sent, source where the user came from
Resolution(outcome, id, fetched, source) ==
    [outcome |-> outcome, id |-> id, fetched |-> fetched, source |-> source]
NoUser(fetched) == Resolution("null", "", fetched, "none")

\* fetchSession(endpoint, headers) with the try block left open: a rejected
\* fetch, a failing response.json() and a property read of null propagate
fetchSessionUncaught(headers, net) ==
    IF ~MapHas(headers, "cookie") \/ headers["cookie"] = <<>> THEN NoUser(FALSE)
    ELSE IF net \in {"transportError", "notJson"} THEN Resolution("threw", "", TRUE, "none")
    ELSE IF net = "user" THEN Resolution("user", "user-b", TRUE, "network")
    ELSE NoUser(TRUE)

\* fetchSession(endpoint, headers): null without a cookie header, and null for
\* whatever goes wrong after the request
fetchSession(headers, net) ==
    IF ~MapHas(headers, "cookie") \/ headers["cookie"] = <<>> THEN NoUser(FALSE)
    ELSE IF net = "user" THEN Resolution("user", "user-b", TRUE, "network")
    ELSE NoUser(TRUE)

\* fetchUserFromSupabase(token, url, anonKey)
fetchUserFromSupabase(token, net) ==
    IF net = "user" THEN Resolution("user", "user-b", TRUE, "network")
    ELSE NoUser(TRUE)

\* nextAuth(config) that leaves the test of its modes to resolve
nextAuthLazy(cfg) == [threw |-> FALSE, provider |-> Some([kind |-> "nextAuth"] @@ cfg)]

\* nextAuth(config): throws when neither secret nor sessionEndpoint is truthy
nextAuth(cfg) ==
    IF ~Configured(cfg.secret) /\ ~Configured(cfg.sessionEndpoint)
    THEN [threw |-> TRUE, provider |-> None]
    ELSE [threw |-> FALSE, provider |-> Some([kind |-> "nextAuth"] @@ cfg)]

\* resolve of nextAuth asking the session endpoint before it verifies the token
nextAuthResolveNetworkFirst(cfg, headers, net, now) ==
    LET token == extractSessionToken(headers)
    IN  IF token = None THEN NoUser(FALSE)
        ELSE IF Configured(cfg.sessionEndpoint) THEN fetchSession(headers, net)
        ELSE LET user == verifyJwt(Get(token), Get(cfg.secret), now)
             IN  IF user.outcome = "user"
                 THEN Resolution("user", user.id, FALSE, "local")
                 ELSE NoUser(FALSE)

\* resolve of the provider nextAuth(config) returns
nextAuthResolve(cfg, headers, net, now) ==
    LET token == extractSessionToken(headers)
        user == verifyJwt(Get(token), Get(cfg.secret), now)
    IN  IF token = None THEN NoUser(FALSE)
        ELSE IF Configured(cfg.secret) /\ user.outcome = "user"
        THEN Resolution("user", user.id, FALSE, "local")
        ELSE IF Configured(cfg.secret) /\ ~Configured(cfg.sessionEndpoint)
        THEN NoUser(FALSE)
        ELSE IF Configured(cfg.sessionEndpoint) THEN fetchSession(headers, net)
        ELSE NoUser(FALSE)

\* resolve of the provider supabaseAuth(config) returns
supabaseResolve(cfg, headers, net, now) ==
    LET token == extractBearerToken(headers)
        user == verifyJwtLocally(Get(token), Get(cfg.jwtSecret), now)
    IN  IF token = None THEN NoUser(FALSE)
        ELSE IF Configured(cfg.jwtSecret)
        THEN (IF user.outcome = "user" THEN Resolution("user", user.id, FALSE, "local")
              ELSE IF user.outcome = "threw" THEN Resolution("threw", "", FALSE, "none")
              ELSE NoUser(FALSE))
        ELSE fetchUserFromSupabase(Get(token), net)

\* provider.resolve(headers)
ProviderResolve(provider, headers, net, now) ==
    IF provider.kind = "nextAuth"
    THEN nextAuthResolve(provider, headers, net, now)
    ELSE supabaseResolve(provider, headers, net, now)

-----------------------------------------------------------------------------
(* Specification of the providers: a provider is constructed, its resolve is *)
(* called on headers, and an action auth().action(handler) of the guard      *)
(* created with it is invoked.                                               *)

NextAuthConfigs ==
    [secret : {None, Some(""), Some("S1")}, sessionEndpoint : {None, Some(""), Some("E")}]
SupabaseConfigs == [jwtSecret : {None, Some("S1")}]

\* tokens a request carries: signed with the secret S1, signed with another
\* secret, of two segments, and signed with S1 over the payload null
GoodToken == createTestJwt(HeaderSegments[1], PayloadSegments[1], "S1")
ForgedToken == createTestJwt(HeaderSegments[1], PayloadSegments[1], "S2")
MalformedToken == <<HeaderSegments[1], PayloadSegments[1]>>
NullPayloadToken == createTestJwt(HeaderSegments[1], "bnVsbA", "S1")
RequestTokens == {GoodToken, ForgedToken, MalformedToken, NullPayloadToken}

Cookie(name, value) == [name |-> name, value |-> value]

\* requests: no header, a cookie header (empty, without or with the session
\* cookie), or an authorization header
AuthHeaders ==
    {EmptyHeaders}
        \cup {[h \in {"cookie"} |-> c] :
                c \in {<<>>, <<Cookie(OtherCookie, <<>>)>>, <<Cookie(SessionCookie, <<>>)>>}
                      \cup {<<Cookie(SessionCookie, t)>> : t \in RequestTokens}
                      \cup {<<Cookie(OtherCookie, <<>>), Cookie(SessionCookie, GoodToken)>>}}
        \cup {[h \in {"authorization"} |-> [scheme |-> sch, token |-> t]] :
                sch \in {"Bearer", "Basic"}, t \in RequestTokens \cup {<<>>}}

\* const provider = nextAuth(config)
ConstructNextAuth(cfg) ==
    /\ config.auth = None
    /\ direct' = [fn |-> "nextAuth", config |-> cfg, threw |-> nextAuth(cfg).threw]
    /\ config' = [config EXCEPT !.auth = nextAuth(cfg).provider]
    /\ UNCHANGED <<builders, actions, rateLimiterCache, stores, clock, inv, ctxs, job,
                   console, checked>>

\* const provider = supabaseAuth(config)
ConstructSupabaseAuth(cfg) ==
    /\ config.auth = None
    /\ direct' = [fn |-> "supabaseAuth", config |-> cfg, threw |-> FALSE]
    /\ config' = [config EXCEPT !.auth = Some([kind |-> "supabaseAuth"] @@ cfg)]
    /\ UNCHANGED <<builders, actions, rateLimiterCache, stores, clock, inv, ctxs, job,
                   console, checked>>

\* await provider.resolve(headers), the network answering net to a lookup
CallResolve(headers, net) ==
    /\ config.auth # None
    /\ \A i \in Slots : inv[i].status \in {"idle", "gone"}
    /\ direct' = [fn |-> "resolve", provider |-> Get(config.auth), headers |-> headers,
                  net |-> net, now |-> clock,
                  result |-> ProviderResolve(Get(config.auth), headers, net, clock)]
    /\ UNCHANGED <<config, builders, actions, rateLimiterCache, stores, clock, inv, ctxs,
                   job, console, checked>>

\* the promise of config.auth.resolve(ctx.headers) settles in an invocation
ProviderResume(i) ==
    /\ job = 0
    /\ inv[i].status = "awaitAuth"
    /\ \E net \in NetworkOutcomes :
         LET r == ProviderResolve(Get(config.auth), Ctx(i).headers, net, clock)
         IN  AuthSettle(i, [threw |-> r.outcome = "threw",
                            user |-> IF r.outcome = "user" THEN r.id ELSE NULL,
                            error |-> ErrorOf("Cannot read properties of null")])
    /\ UNCHANGED <<direct, config, builders, actions, rateLimiterCache, stores, clock,
                   console, checked>>

\* an action of createActionGuard({ auth: provider }) is invoked
ProviderInvoke(i) ==
    /\ config.auth # None
    /\ AwaitedInvoke(i, 1, Undef)

InitAuth ==
    /\ config = [auth |-> None, rateLimit |-> None, csrf |-> None]
    /\ builders = <<<<Step("auth", NoConfig)>>>>
    /\ actions = <<[builder |-> 1]>>
    /\ rateLimiterCache = EmptyMap
    /\ stores = <<>>
    /\ clock = 0
    /\ inv = [i \in Slots |-> IdleInv]
    /\ ctxs = [i \in Slots |-> NoCtx]
    /\ job = 0
    /\ console = <<>>
    /\ checked = <<>>
    /\ direct = NoCall

\* the context of an invocation has no headers: resolve finds no token there,
\* and the handler of auth().action(handler) is not reached
NextAuth ==
    \/ \E cfg \in NextAuthConfigs : ConstructNextAuth(cfg)
    \/ \E cfg \in SupabaseConfigs : ConstructSupabaseAuth(cfg)
    \/ \E headers \in AuthHeaders, net \in NetworkOutcomes : CallResolve(headers, net)
    \/ \E i \in Slots : ProviderInvoke(i)
    \/ \E i \in Slots : AuthCall(i)
    \/ \E i \in Slots : ProviderResume(i)
    \/ \E i \in Slots : Settle(i)

SpecAuth == InitAuth /\ [][NextAuth]_vars

-----------------------------------------------------------------------------
(* The providers' contract *)

IsResolve == direct.fn = "resolve"
Unset(opt) == opt \in {None, Some("")}

\* the provider of the last resolve has a secret and a network lookup
BothModes ==
    IF direct.provider.kind = "nextAuth"
    THEN ~Unset(direct.provider.secret) /\ ~Unset(direct.provider.sessionEndpoint)
    ELSE ~Unset(direct.provider.jwtSecret)

\* the token the request of the last resolve carries where the provider looks
\* for it: the session cookie for nextAuth, the bearer token for supabaseAuth
CarriedToken ==
    IF direct.provider.kind = "nextAuth"
    THEN (IF MapHas(direct.headers, "cookie")
          THEN {c.value : c \in {direct.headers["cookie"][k] :
                                   k \in 1..Len(direct.headers["cookie"])}
                              \cap {Cookie(SessionCookie, t) : t \in RequestTokens}}
          ELSE {})
    ELSE (IF MapHas(direct.headers, "authorization")
             /\ direct.headers["authorization"].scheme = "Bearer"
          THEN {direct.headers["authorization"].token} \ {<<>>}
          ELSE {})

\* the carried token is the one the signer writes for the provider's secret
VerifiesLocally == CarriedToken = {GoodToken}

\* what the network lookup of the provider returns for the last resolve
NetworkLookup ==
    IF direct.provider.kind = "nextAuth"
    THEN fetchSession(direct.headers, direct.net)
    ELSE fetchUserFromSupabase(<<>>, direct.net)

\* C24: Missing auth modes fail at construction. nextAuth(config) throws if and
\* only if neither secret nor sessionEndpoint is configured (an empty string is
\* not a configured one), no provider exists after the throw, a provider that
\* was constructed has at least one of the two, and its resolve never throws.
ConstructionErrors ==
    /\ direct.fn = "nextAuth" =>
         /\ direct.threw <=> Unset(direct.config.secret) /\ Unset(direct.config.sessionEndpoint)
         /\ direct.threw => config.auth = None
         /\ ~direct.threw => config.auth = Some([kind |-> "nextAuth"] @@ direct.config)
    /\ \A provider \in config.auth :
         provider.kind = "nextAuth" =>
            ~(Unset(provider.secret) /\ Unset(provider.sessionEndpoint))
    /\ IsResolve /\ direct.provider.kind = "nextAuth" => direct.result.outcome # "threw"

ConstructionErrorsWitness ==
    /\ direct.fn = "nextAuth"
    /\ direct.threw
    /\ direct.config = [secret |-> Some(""), sessionEndpoint |-> None]

\* C21: Local verification takes precedence. When the provider has both a
\* secret and a network lookup and the request carries a token that verifies
\* locally, resolve returns the user of the token and sends no request.
LocalPrecedence ==
    IsResolve /\ BothModes /\ VerifiesLocally =>
        /\ direct.result.outcome = "user"
        /\ direct.result.source = "local"
        /\ direct.result.id = verifyJwt(GoodToken, "S1", direct.now).id
        /\ ~direct.result.fetched

LocalPrecedenceWitness ==
    /\ IsResolve
    /\ direct.provider = [kind |-> "nextAuth", secret |-> Some("S1"),
                          sessionEndpoint |-> Some("E")]
    /\ direct.headers = [h \in {"cookie"} |-> <<Cookie(SessionCookie, GoodToken)>>]
    /\ direct.net = "user"
    /\ direct.result = Resolution("user", "user-a", FALSE, "local")

\* C22: Fallback on local failure. When both resolution modes are configured,
\* the network lookup is attempted exactly when local verification fails (bad
\* signature, malformed token, no token-bearing header or cookie at all), and
\* resolve then returns what the network lookup returns.
FallbackOnLocalFailure ==
    IsResolve /\ BothModes =>
        /\ VerifiesLocally => ~direct.result.fetched
        /\ ~VerifiesLocally =>
             /\ direct.result.outcome = NetworkLookup.outcome
             /\ direct.result.id = NetworkLookup.id
             /\ direct.result.fetched = NetworkLookup.fetched

\* C23: Network fallback never propagates failure. Whenever resolve sent its
\* request, a response that is not ok, a transport error and a body without a
\* usable user all make it return null, and it does not throw; an auth step
\* of an invocation never ends in INTERNAL_ERROR.
NetworkNeverPropagates ==
    /\ IsResolve /\ direct.result.fetched =>
         /\ direct.result.outcome # "threw"
         /\ direct.net # "user" => direct.result.outcome = "null"
    /\ IsResolve /\ direct.provider.kind = "nextAuth"
           /\ Unset(direct.provider.secret)
           /\ MapHas(direct.headers, "cookie")
           /\ parseCookieValue(direct.headers["cookie"], SessionCookie) # None
           /\ direct.net # "user"
         => direct.result = NoUser(TRUE)
    /\ \A i \in Slots :
         HasResult(i) /\ config.auth # None =>
            /\ ~inv[i].result.success
            /\ inv[i].result.code = "AUTH_FAILED"

NetworkNeverPropagatesWitness ==
    /\ IsResolve
    /\ direct.net = "transportError"
    /\ direct.result = NoUser(TRUE)
    /\ direct.provider.kind = "nextAuth"

-----------------------------------------------------------------------------
(* Specification of the store's record: a limiter of maxRequests MaxN and    *)
(* window "1s" is called and reset while time passes, its store              *)
(* (limiter.store) is also checked directly with a maxRequests of the        *)
(* caller's, and what each call was given and returned is kept in direct.    *)
(* held is the key's sequence before the call, cleared the keys reset and    *)
(* not checked since.                                                        *)

Cleared == IF direct = NoCall THEN {} ELSE direct.cleared

\* backingStore.check(key, maxRequests, windowMs), called through via
ObservedStoreCheck(arg, maxRequests, via) ==
    /\ Len(checked) < MaxStoreChecks
    /\ LET limiter == rateLimiterCache[Standalone]
           key == resolveKey(limiter.keyFn, arg)
           windows == stores[limiter.store]
           answer == StoreCheck(windows, key, maxRequests, limiter.windowMs, clock)
       IN  /\ stores' = [stores EXCEPT ![limiter.store] = answer.windows]
           /\ checked' = Append(checked,
                CheckRecord([limiter EXCEPT !.maxRequests = maxRequests], key, clock,
                            answer.result.allowed, Standalone, arg, 0))
           /\ direct' = [fn |-> "check", via |-> via, key |-> key, max |-> maxRequests,
                         windowMs |-> limiter.windowMs, now |-> clock,
                         held |-> IF MapHas(windows, key) THEN windows[key] ELSE <<>>,
                         known |-> MapHas(windows, key),
                         retained |-> answer.windows[key],
                         result |-> answer.result, wasCleared |-> key \in Cleared,
                         cleared |-> Cleared \ {key}]
    /\ UNCHANGED <<config, builders, actions, rateLimiterCache, clock, inv, ctxs, job,
                   console>>

\* const result = await limiter(arg)
ObservedCheck(arg) ==
    ObservedStoreCheck(arg, rateLimiterCache[Standalone].maxRequests, "limiter")

\* const result = await limiter.store.check(keyFn(arg), maxRequests, windowMs)
ObservedDirectCheck(arg, maxRequests) == ObservedStoreCheck(arg, maxRequests, "store")

\* await limiter.reset(arg)
ObservedReset(arg) ==
    /\ LET limiter == rateLimiterCache[Standalone]
           key == resolveKey(limiter.keyFn, arg)
           windows == stores[limiter.store]
       IN  /\ stores' = [stores EXCEPT ![limiter.store] = StoreReset(windows, key)]
           /\ direct' = [fn |-> "reset", key |-> key, windows |-> windows,
                         after |-> StoreReset(windows, key),
                         cleared |-> Cleared \cup {key}]
    /\ UNCHANGED <<config, builders, actions, rateLimiterCache, clock, inv, ctxs, job,
                   console, checked>>

NextRecord ==
    \/ \E arg \in LimiterArgs : ObservedCheck(arg)
    \/ \E arg \in LimiterArgs, maxRequests \in {1, MaxN} : ObservedDirectCheck(arg, maxRequests)
    \/ \E arg \in LimiterArgs : ObservedReset(arg)
    \/ StoreTick

InitRecord ==
    /\ config = [auth |-> None, rateLimit |-> None, csrf |-> None]
    /\ builders = <<>>
    /\ actions = <<>>
    /\ rateLimiterCache =
         MapSet(EmptyMap, Standalone,
                createRateLimiter([maxRequests |-> MaxN, window |-> <<"1", "s">>,
                                   keyFn |-> Some("userKey"), store |-> None], 0).limiter)
    /\ stores = <<EmptyMap>>
    /\ clock = 0
    /\ inv = [i \in Slots |-> IdleInv]
    /\ ctxs = [i \in Slots |-> NoCtx]
    /\ job = 0
    /\ console = <<>>
    /\ checked = <<>>
    /\ direct = NoCall

SpecRecord == InitRecord /\ [][NextRecord]_vars

-----------------------------------------------------------------------------
(* The store's record and results *)

IsCheck == direct.fn = "check"
Elements(seq) == {seq[k] : k \in 1..Len(seq)}
\* the timestamps the key held before the last check
HeldBefore == direct.held
\* of those, the ones still inside the window of the last check
StillInside == SelectSeq(HeldBefore, LAMBDA ts : direct.now - ts < direct.windowMs)

\* C32: Reset time. Every result of check at time now has resetAt = oldest
\* retained timestamp + windowMs when a timestamp is retained after the check,
\* else now + windowMs; so now < resetAt <= now + windowMs for every result.
ResetTime ==
    IsCheck =>
        /\ direct.retained # <<>> =>
             \E oldest \in Elements(direct.retained) :
                /\ \A ts \in Elements(direct.retained) : oldest <= ts
                /\ direct.result.resetAt = oldest + direct.windowMs
        /\ direct.retained = <<>> => direct.result.resetAt = direct.now + direct.windowMs
        /\ direct.now < direct.result.resetAt
        /\ direct.result.resetAt <= direct.now + direct.windowMs

\* a check made after an earlier admission that is still retained: resetAt is
\* that of the earlier timestamp, before now + windowMs
ResetTimeWitness ==
    /\ IsCheck
    /\ direct.now = HalfMs
    /\ direct.retained = <<0, HalfMs>>
    /\ direct.result.resetAt = direct.windowMs
    /\ direct.result.resetAt < direct.now + direct.windowMs

\* C33: Reset. After reset(key), whatever the key held, the next check on the
\* key with maxRequests = n is admitted with remaining = n - 1, as for a key
\* never seen; reset of an unknown key has no effect, and reset changes no other
\* key.
ResetRestores ==
    /\ IsCheck /\ (direct.wasCleared \/ ~direct.known) =>
         /\ direct.result.allowed
         /\ direct.result.remaining = direct.max - 1
         /\ direct.result.resetAt = direct.now + direct.windowMs
         /\ direct.retained = <<direct.now>>
    /\ direct.fn = "reset" =>
         /\ direct.key \notin DOMAIN direct.after
         /\ \A k \in (DOMAIN direct.windows \cup DOMAIN direct.after) \ {direct.key} :
              /\ k \in DOMAIN direct.windows
              /\ k \in DOMAIN direct.after
              /\ direct.after[k] = direct.windows[k]
         /\ direct.key \notin DOMAIN direct.windows => direct.after = direct.windows

\* a key exhausted by two admissions and then reset is admitted again within
\* the same window
ResetRestoresWitness ==
    /\ IsCheck
    /\ direct.wasCleared
    /\ direct.max = 2
    /\ direct.now = 0
    /\ Len(SelectSeq(checked, LAMBDA e : e.key = direct.key /\ e.allowed)) = 3
    /\ direct.result.remaining = 1

\* the largest maxRequests the key was checked with so far
LargestMax(key) ==
    LET of == {checked[k].max : k \in {j \in 1..Len(checked) : checked[j].key = key}}
    IN  IF of = {} THEN 0 ELSE CHOOSE m \in of : \A n \in of : n <= m

NonDecreasing(seq) == \A j, k \in 1..Len(seq) : j <= k => seq[j] <= seq[k]

\* C34 as stated: Record invariant. With a non-decreasing clock each key's
\* recorded sequence is non-decreasing, and right after any check(key, n, W)
\* the key's sequence holds only timestamps > now - W and at most n of them.
RecordInvariantAsStated ==
    /\ \A s \in 1..Len(stores) : \A key \in DOMAIN stores[s] :
         NonDecreasing(stores[s][key])
    /\ IsCheck =>
         /\ \A ts \in Elements(direct.retained) : ts > direct.now - direct.windowMs
         /\ Len(direct.retained) <= direct.max

\* C34: Record invariant, amended. With a non-decreasing clock each key's
\* recorded sequence is non-decreasing and holds no timestamp of the future;
\* right after check(key, n, W) it holds only timestamps > now - W, at most n
\* of them unless more were already inside the window, and at no time more
\* than the largest maxRequests the key was checked with: the record is
\* bounded.
RecordInvariant ==
    /\ \A s \in 1..Len(stores) : \A key \in DOMAIN stores[s] :
         /\ NonDecreasing(stores[s][key])
         /\ Len(stores[s][key]) <= LargestMax(key)
         /\ \A ts \in Elements(stores[s][key]) : ts <= clock
    /\ IsCheck =>
         /\ \A ts \in Elements(direct.retained) : ts > direct.now - direct.windowMs
         /\ Len(direct.retained) <= Max(direct.max, Len(StillInside))
         /\ Len(StillInside) <= direct.max => Len(direct.retained) <= direct.max
         /\ Len(direct.retained) <= LargestMax(direct.key)

\* a check with maxRequests 1 of a key that holds two timestamps, one of them
\* expired: the expired one is dropped, the check is denied, one is retained
RecordInvariantWitness ==
    /\ IsCheck
    /\ direct.max = 1
    /\ direct.windowMs = 2 * HalfMs
    /\ HeldBefore = <<0, HalfMs>>
    /\ direct.now = 2 * HalfMs
    /\ direct.retained = <<HalfMs>>
    /\ ~direct.result.allowed

\* C37: Denied checks are not recorded. A denied check appends no timestamp:
\* apart from the expired entries it drops, it leaves the key's sequence as it
\* was, every retained timestamp is that of an admitted check, and the check is
\* admitted as soon as fewer than maxRequests admitted timestamps remain inside
\* the window, however many checks were denied meanwhile.
DeniedNotRecorded ==
    IsCheck =>
        /\ ~direct.result.allowed =>
             /\ direct.retained = StillInside
             /\ direct.result.remaining = 0
        /\ \A ts \in Elements(direct.retained) :
             \E k \in 1..Len(checked) :
                /\ checked[k].key = direct.key
                /\ checked[k].ts = ts
                /\ checked[k].allowed
        /\ direct.result.allowed <=> Len(StillInside) < direct.max

\* an admission, a denial half a window later, and an admission at the moment
\* the first timestamp leaves the window
DeniedNotRecordedWitness ==
    /\ IsCheck
    /\ direct.max = 1
    /\ direct.windowMs = 2 * HalfMs
    /\ direct.now = 2 * HalfMs
    /\ direct.result.allowed
    /\ \E k \in 1..Len(checked) :
         checked[k].key = direct.key /\ checked[k].ts = HalfMs /\ ~checked[k].allowed
    /\ HeldBefore = <<0>>

-----------------------------------------------------------------------------
(* Specification of the budget: two actions are compiled from builders of    *)
(* one guard, base.action(h) and base. ... .action(h'), whose pipelines      *)
(* carry rate-limit configurations of maxRequests 2, 1 and 0; each call is   *)
(* awaited before the next is made.                                          *)

BudgetPipelines ==
    {<<Step("rateLimit", "R4")>>,
     <<Step("rateLimit", "R4"), Step("rateLimit", "R4")>>,
     <<Step("auth", NoConfig), Step("rateLimit", "R1")>>,
     <<Step("rateLimit", "R1"), Step("auth", NoConfig)>>,
     <<Step("rateLimit", "R0")>>}

InitBudget ==
    /\ config \in Configs
    /\ \E p, q \in BudgetPipelines : builders = <<p, q>>
    /\ actions = <<[builder |-> 1], [builder |-> 2]>>
    /\ rateLimiterCache = EmptyMap
    /\ stores = <<>>
    /\ clock = 0
    /\ inv = [i \in Slots |-> IdleInv]
    /\ ctxs = [i \in Slots |-> NoCtx]
    /\ job = 0
    /\ console = <<>>
    /\ checked = <<>>
    /\ direct = NoCall

NextBudget ==
    \/ \E i \in Slots, a \in 1..2 : AwaitedInvoke(i, a, Undef)
    \/ \E i \in Slots : AuthCall(i)
    \/ \E i \in Slots : AuthResume(i)
    \/ \E i \in Slots : RateLimitCall(i)
    \/ \E i \in Slots : RateLimitResume(i)
    \/ \E i \in Slots : HandlerCall(i)
    \/ \E i \in Slots : HandlerReturn(i)
    \/ \E i \in Slots : Settle(i)
    \/ Tick

SpecBudget == InitBudget /\ [][NextBudget]_vars

-----------------------------------------------------------------------------
(* The budget of a pipeline's rate-limit steps *)

\* the checks an invocation made, in the order it made them
ChecksOf(i) == {k \in 1..Len(checked) : checked[k].slot = i}

\* how many checks up to the k-th, the k-th included, were admitted on its
\* store and key within the window that ends at the k-th
AdmittedWithin(k) ==
    Cardinality({j \in 1..k : /\ checked[j].store = checked[k].store
                              /\ checked[j].key = checked[k].key
                              /\ checked[j].allowed
                              /\ checked[k].ts - checked[j].ts < checked[k].windowMs})

\* the check whose result the context's metadata.rateLimit was written from:
\* the invocation's last one that is not still awaited
WrittenCheck(i) ==
    LET passed == {k \in ChecksOf(i) :
                     inv[i].status = "awaitLimiter" => k # LastCheckOf(i)}
    IN  IF passed = {} THEN 0 ELSE CHOOSE k \in passed : \A l \in passed : l <= k

\* C31: Remaining count. Every result of a check has remaining = max(0,
\* maxRequests - c), c being the timestamps retained for the key after the
\* check; remaining >= 0, a denied check reports 0, the k-th admitted check of
\* a window reports maxRequests - k, and on admission the pipeline records the
\* value as metadata.rateLimit.remaining.
RemainingCount ==
    \A i \in Slots :
        /\ inv[i].status = "awaitLimiter" =>
             LET k == LastCheckOf(i)
                 c == Len(stores[checked[k].store][checked[k].key])
                 result == inv[i].limited
             IN  /\ result.remaining = IF checked[k].max - c > 0 THEN checked[k].max - c ELSE 0
                 /\ result.remaining >= 0
                 /\ ~result.allowed => result.remaining = 0
                 /\ result.allowed => result.remaining = checked[k].max - AdmittedWithin(k)
                 /\ result.allowed = checked[k].allowed
        /\ Live(i) =>
             /\ MapHas(Ctx(i).metadata, "rateLimit") <=> WrittenCheck(i) # 0
             /\ WrittenCheck(i) # 0 =>
                  Ctx(i).metadata["rateLimit"].remaining =
                      checked[WrittenCheck(i)].max - AdmittedWithin(WrittenCheck(i))

\* the second invocation of rateLimit({ maxRequests: 2 }) is running after its
\* check, the second admitted one of the window: metadata.rateLimit.remaining is 0
RemainingCountWitness ==
    /\ Len(checked) = 2
    /\ checked[1].slot = 1 /\ checked[2].slot = 2
    /\ checked[2].max = 2
    /\ Live(2)
    /\ MapHas(Ctx(2).metadata, "rateLimit")
    /\ Ctx(2).metadata["rateLimit"].remaining = 0

\* C35: Limiter reuse across invocations. Within one guard a limiter is
\* constructed at most once per rate-limit configuration and reused by every
\* later invocation: the checks of one configuration all go to one store, as
\* many stores exist as configurations were used, and a check is admitted
\* exactly when fewer than maxRequests earlier checks of the configuration, of
\* whichever invocation, step or action, were admitted within the window.
LimiterReuse ==
    /\ Len(stores) = Cardinality(DOMAIN rateLimiterCache)
    /\ DOMAIN rateLimiterCache = {checked[k].cfg : k \in 1..Len(checked)}
    /\ \A j, k \in 1..Len(checked) :
         checked[j].cfg = checked[k].cfg => checked[j].store = checked[k].store
    /\ \A k \in 1..Len(checked) :
         checked[k].allowed <=>
            Cardinality({j \in 1..(k - 1) : /\ checked[j].cfg = checked[k].cfg
                                            /\ checked[j].allowed
                                            /\ checked[k].ts - checked[j].ts
                                                  < checked[k].windowMs})
               < checked[k].max

\* an invocation of one action passed both steps of rateLimit(rl).rateLimit(rl)
\* with maxRequests 2, and the invocation of the other action, which carries
\* the same configuration once, is denied
LimiterReuseWitness ==
    /\ Len(checked) = 3
    /\ \A k \in 1..3 : checked[k].cfg = "R4"
    /\ checked[1].slot = 1 /\ checked[2].slot = 1 /\ checked[3].slot = 2
    /\ checked[2].allowed /\ ~checked[3].allowed
    /\ inv[2].status = "awaitLimiter"
    /\ Len(StepsOf(inv[2].action)) = 1
    /\ Len(stores) = 1

\* C36: Rate-limit configuration invariant. A rate-limit configuration is used
\* to admit or deny requests only if its maxRequests is >= 1 and its window
\* parses to a positive duration; a configuration violating either is rejected
\* rather than applied.
ValidConfigurationsOnly ==
    /\ \A k \in 1..Len(checked) : checked[k].max >= 1 /\ checked[k].windowMs > 0
    /\ \A id \in DOMAIN rateLimiterCache :
         rateLimiterCache[id].maxRequests >= 1 /\ rateLimiterCache[id].windowMs > 0

\* how often ts occurs in a sequence
Occurrences(seq, ts) == Cardinality({k \in 1..Len(seq) : seq[k] = ts})

\* the rateLimit steps among the steps whose check an invocation ran
RateLimitStepsRun(i) ==
    {k \in 1..Len(inv[i].trace) :
        StepsOf(inv[i].action)[inv[i].trace[k]].type = "rateLimit"}

\* C38: Budget consumption follows step position. An invocation makes one check
\* per rateLimit step it reached, so one that ends at an earlier step (as
\* AUTH_FAILED in [auth, rateLimit]) leaves the limiter as it was; the
\* timestamp of every admitted check stays in the store while it is inside the
\* window, whatever became of the invocation afterwards: it is not refunded.
BudgetFollowsPosition ==
    /\ \A i \in Slots :
         inv[i].status \notin {"idle", "gone"} =>
            /\ Cardinality(ChecksOf(i)) = Cardinality(RateLimitStepsRun(i))
            /\ HasResult(i) /\ ~inv[i].result.success
                   /\ inv[i].result.code = "AUTH_FAILED"
                   /\ StepsOf(inv[i].action)[1].type = "auth"
                 => ChecksOf(i) = {}
    /\ \A k \in 1..Len(checked) :
         LET e == checked[k]
             log == LogFor(e.store, e.key)
             last == log[Len(log)]
         IN  e.allowed /\ last.ts - e.ts < last.windowMs =>
                Occurrences(stores[e.store][e.key], e.ts) =
                    Cardinality({j \in 1..Len(checked) : /\ SameKey(checked[j], e)
                                                         /\ checked[j].allowed
                                                         /\ checked[j].ts = e.ts})
    /\ Len(checked) = 0 => \A s \in 1..Len(stores) : stores[s] = EmptyMap

\* in [auth, rateLimit] the first invocation ended without a check; the second
\* was admitted and its handler threw: its timestamp is in the store
BudgetFollowsPositionWitness ==
    /\ inv[1].status = "gone"
    /\ inv[2].status = "done"
    /\ StepsOf(inv[2].action) = <<Step("auth", NoConfig), Step("rateLimit", "R1")>>
    /\ builders[1] = builders[2]
    /\ inv[2].result = Failure("Something went wrong internally", "INTERNAL_ERROR")
    /\ Len(checked) = 1
    /\ checked[1].slot = 2
    /\ checked[1].allowed
    /\ stores[checked[1].store][checked[1].key] = <<checked[1].ts>>

-----------------------------------------------------------------------------
(* Specification of the audit log: an action whose pipeline declares one or  *)
(* two audit steps, with or without auth, is invoked; the provider resolves  *)
(* to a string user, an object user or null.                                 *)

AuditPipelines ==
    {<<Step("audit", "A1")>>,
     <<Step("audit", "A1"), Step("audit", "A2")>>,
     <<Step("audit", "A2"), Step("audit", "A1")>>,
     <<Step("auth", NoConfig), Step("audit", "A1"), Step("audit", "A2")>>,
     <<Step("audit", "A2"), Step("auth", NoConfig), Step("audit", "A1")>>}

\* the promise of the provider settles, also with a user that is an object
AuditAuthResume(i) ==
    /\ job = 0
    /\ inv[i].status = "awaitAuth"
    /\ \E out \in AuthOutcomes \cup {[threw |-> FALSE, user |-> ObjectUser,
                                       error |-> ErrorOf("")]} :
         AuthSettle(i, out)
    /\ UNCHANGED <<direct, config, builders, actions, rateLimiterCache, stores, clock,
                   console, checked>>

InitAudit == InitWith(AuditPipelines, Configs)

NextAudit ==
    \/ \E i \in Slots : AwaitedInvoke(i, 1, Undef)
    \/ \E i \in Slots : AuthCall(i)
    \/ \E i \in Slots : AuditAuthResume(i)
    \/ \E i \in Slots : AuditStep(i)
    \/ \E i \in Slots : HandlerCall(i)
    \/ \E i \in Slots : HandlerReturn(i)
    \/ \E i \in Slots : Settle(i)
    \/ Tick

SpecAudit == InitAudit /\ [][NextAudit]_vars

\* the audit steps a pipeline declares, by position
AuditSteps(steps) == {k \in 1..Len(steps) : steps[k].type = "audit"}
LastAuditStep(steps) == CHOOSE k \in AuditSteps(steps) : \A l \in AuditSteps(steps) : l <= k

\* C39: Several audit steps. When a pipeline declares more than one audit step,
\* a successful invocation still writes exactly one audit record; the record
\* carries the action and resource of the last declared audit step, and its
\* userId is the stringified context user, 'anonymous' when there is none.
SeveralAuditSteps ==
    [][\A i \in Slots :
          inv[i].status = "awaitHandler" /\ inv'[i].status = "done"
              /\ inv'[i].result.success /\ AuditSteps(StepsOf(inv[i].action)) # {}
          => LET steps == StepsOf(inv[i].action)
                 last == steps[LastAuditStep(steps)].config
                 written == console'[Len(console')]
             IN  /\ Len(console') = Len(console) + 1
                 /\ SubSeq(console', 1, Len(console)) = console
                 /\ written.action = (IF last = "A2" THEN "VIEW_PAGE" ELSE "CREATE_POST")
                 /\ written.resource = (IF last = "A2" THEN "dashboard" ELSE "posts")
                 /\ written.success
                 /\ written.userId =
                       (IF inv[i].resolved = NULL THEN "anonymous"
                        ELSE IF inv[i].resolved \in Users THEN inv[i].resolved
                        ELSE "[object Object]")
      ]_vars

\* the one record of a successful invocation of audit(A1).audit(A2), which has
\* no auth step
SeveralAuditStepsWitness ==
    /\ inv[1].status = "done"
    /\ inv[1].result.success
    /\ StepsOf(inv[1].action) = <<Step("audit", "A1"), Step("audit", "A2")>>
    /\ console = <<[timestamp |-> toISOString(clock), action |-> "VIEW_PAGE",
                    resource |-> "dashboard", userId |-> "anonymous", success |-> TRUE]>>

-----------------------------------------------------------------------------
(* Specification of the scheduling: the overlapping invocations of           *)
(* SpecConcurrent, where the event loop runs every job that is ready and the *)
(* promises of the provider, the limiter and the handler settle.             *)

\* the steps of one invocation: its synchronous code, the settling of what it
\* awaits, and its caller's continuation
InvocationStep(i) ==
    \/ AuthCall(i)
    \/ AuthResume(i)
    \/ SchemaStep(i)
    \/ RateLimitCall(i)
    \/ RateLimitResume(i)
    \/ AuditStep(i)
    \/ CsrfStep(i)
    \/ SanitizeStep(i)
    \/ HandlerCall(i)
    \/ HandlerReturn(i)
    \/ Settle(i)

SpecScheduled ==
    /\ InitConcurrent
    /\ [][NextConcurrent]_vars
    /\ \A i \in Slots : WF_vars(InvocationStep(i))

Suspended(i) == inv[i].status \in {"awaitAuth", "awaitLimiter", "awaitHandler"}

\* C40: Run to completion. When the provider, the identifier function and the
\* handler terminate, every invocation eventually resolves, with a success
\* result or with a failure result of one of the five codes, and the result
\* then stays as it is; an invocation whose code is running can take its next
\* step, and a suspended one can resume whenever no job is running, whatever
\* state the other invocations are in.
RunToCompletion ==
    /\ \A i \in Slots : Live(i) ~> (inv[i].status = "done")
    /\ [](\A i \in Slots :
            /\ Live(i) => ~HasResult(i)
            /\ inv[i].status = "done" =>
                 /\ HasResult(i)
                 /\ ~inv[i].result.success => inv[i].result.code \in Codes
            /\ Live(i) /\ job = i => ENABLED InvocationStep(i)
            /\ Suspended(i) /\ job = 0 => ENABLED InvocationStep(i))
    /\ [][\A i \in Slots :
            inv[i].status = "done" =>
               inv'[i] = inv[i] \/ inv'[i].status = "gone"]_vars

\* one invocation is suspended on its handler while the code of the other runs
RunToCompletionWitness ==
    /\ inv[1].status = "awaitHandler"
    /\ inv[2].status = "running"
    /\ job = 2

====
